---- MODULE Spec2Model ----
(***************************************************************************)
(* Panel Coordinate & Defect Aggregation Engine of the AOI defect          *)
(* dashboard: the Panel Aggregate Store (src/models.py), the loader        *)
(* (src/data_handler.py) and the aggregations (src/analysis/               *)
(* calculations.py), with the Streamlit memoization that wraps them.       *)
(*                                                                         *)
(* A DataFrame is a record [hasPX, rows]: rows is the sequence of its rows *)
(* and hasPX says whether the frame has a PHYSICAL_X column.  A text value *)
(* is a sequence of one-character strings, so that strip() and upper() are *)
(* computed, not assumed.                                                  *)
(***************************************************************************)
EXTENDS Integers, Sequences, FiniteSets, TLC

VARIABLES
    uploaded_files, \* st.session_state[uploaded_files_k]: the files of the upload
    panel,          \* the PanelData the session holds (store.layer_data)
    panel_rows,     \* analysis_params["panel_rows"]
    panel_cols,     \* analysis_params["panel_cols"]
    uuid_counter,   \* number of PanelData objects constructed so far
    cache,          \* st.cache_data: memo key -> cached return value
    ret,            \* the last call of an aggregation: [fn, args, val]
    report,         \* the call of generate_zip_package in progress
    session         \* st.session_state: the keys the analysis page works on

vars ==
    <<uploaded_files, panel, panel_rows, panel_cols, uuid_counter, cache, ret,
      report, session>>

----------------------------------------------------------------------------
(* Bounds of the model *)

MaxDim == 2         \* rows and columns per quadrant range over 1..MaxDim
MaxIdx == 3         \* unit indices of the records range over 0..MaxIdx
MaxLayer == 2       \* layer numbers range over 1..MaxLayer
MaxFiles == 2       \* files per upload
MaxPanels == 3      \* PanelData objects constructed in one behaviour
MaxLen == 2         \* records of a frame handed to a pure aggregation
MaxCache == 2       \* entries the memo store takes, further misses are left out
JitterSteps == 2    \* np.random.rand draws k / JitterSteps, k in 0..JitterSteps-1
MaxHover == 4       \* records of a frame with defect types
MaxRows == 2        \* records of a layer the yield-killer metrics count
MaxTasks == 5       \* image tasks one package dispatches
MaxCount == 2       \* defects of one unit in a grid of the delta map
MaxRuns == 2        \* analyses run in one session

----------------------------------------------------------------------------
(* Text values *)

Lower == <<"a","b","c","d","e","f","g","h","i","j","k","l","m",
           "n","o","p","q","r","s","t","u","v","w","x","y","z">>
Upper == <<"A","B","C","D","E","F","G","H","I","J","K","L","M",
           "N","O","P","Q","R","S","T","U","V","W","X","Y","Z">>

\* str.upper() on one character
UpperChar(c) ==
    IF \E i \in 1..26 : Lower[i] = c
    THEN Upper[CHOOSE i \in 1..26 : Lower[i] = c]
    ELSE c

\* str.upper()
str_upper(s) == [i \in 1..Len(s) |-> UpperChar(s[i])]

RECURSIVE lstrip(_)
lstrip(s) == IF s # <<>> /\ Head(s) = " " THEN lstrip(Tail(s)) ELSE s

RECURSIVE rstrip(_)
rstrip(s) ==
    IF s # <<>> /\ s[Len(s)] = " " THEN rstrip(SubSeq(s, 1, Len(s) - 1)) ELSE s

\* str.strip()
str_strip(s) == rstrip(lstrip(s))

SAFE_VERIFICATION_VALUES ==
    { <<"G","E","5","7">>, <<"N">>, <<"T","A">>, <<"F","A","L","S","E">>,
      <<"F","A","L","S","E"," ","A","L","A","R","M">>, <<"F">> }

SAFE_VERIFICATION_VALUES_UPPER == { str_upper(v) : v \in SAFE_VERIFICATION_VALUES }

UNDER_VERIFICATION ==
    <<"U","n","d","e","r"," ","V","e","r","i","f","i","c","a","t","i","o","n">>

\* a spreadsheet cell of the VERIFICATION column: NaN or a text
NaN == [isna |-> TRUE, s |-> <<>>]
Text(s) == [isna |-> FALSE, s |-> s]

\* a clean-up that marks an empty or blank cell with the sentinel
NormalizeVerification_sentinel(cell) ==
    LET filled == IF cell.isna THEN <<>> ELSE cell.s
        norm == str_upper(str_strip(filled))
    IN IF norm = <<>> THEN UNDER_VERIFICATION ELSE norm

\* a clean-up that trims the cell and keeps its case
NormalizeVerification_keep_case(cell) ==
    LET filled == IF cell.isna THEN <<"N">> ELSE cell.s
        norm == str_strip(filled)
    IN IF norm = <<>> THEN <<"N">> ELSE norm

\* df['Verification'].fillna('N').astype(str).str.strip().str.upper(), then
\* replace('', 'N')
NormalizeVerification(cell) ==
    LET filled == IF cell.isna THEN <<"N">> ELSE cell.s
        norm == str_upper(str_strip(filled))
    IN IF norm = <<>> THEN <<"N">> ELSE norm

----------------------------------------------------------------------------
(* Small helpers on sequences and sets *)

Range(s) == { s[i] : i \in DOMAIN s }

RECURSIVE SeqSum(_)
SeqSum(s) == IF s = <<>> THEN 0 ELSE Head(s) + SeqSum(Tail(s))

RECURSIVE SortedSeq(_)
\* sorted(...) of a set of integers
SortedSeq(S) ==
    IF S = {} THEN <<>>
    ELSE LET m == CHOOSE a \in S : \A b \in S : a <= b
         IN <<m>> \o SortedSeq(S \ {m})

RECURSIVE FlatRows(_)
\* pd.concat of a sequence of row sequences
FlatRows(ss) == IF ss = <<>> THEN <<>> ELSE Head(ss) \o FlatRows(Tail(ss))

\* Optional[List]: None, or a list used only through isin()
None == [isNone |-> TRUE, vals |-> {}]
Some(S) == [isNone |-> FALSE, vals |-> S]
\* truth value of an Optional[List] in `if x:`
Truthy(o) == ~o.isNone /\ o.vals # {}


----------------------------------------------------------------------------
(* BuildUpLayer: one side of one build-up layer (src/models.py) *)

\* LayoutParams(panel_cols, panel_rows, quad_width, quad_height, margin_x,
\* margin_y, gap_mid, gap_unit); lengths are whole numbers of a length unit
LayoutParams(cols, rows, quad_width, quad_height, margin_x, margin_y, gap_mid, gap_unit) ==
    [panel_cols |-> cols, panel_rows |-> rows,
     quad_width |-> quad_width, quad_height |-> quad_height,
     margin_x |-> margin_x, margin_y |-> margin_y,
     gap_mid |-> gap_mid, gap_unit |-> gap_unit]

\* the layout of a panel of cols x rows units per quadrant: units 4 wide and
\* 5 high, 1 apart, margins 2 and 3, quadrants 3 apart; the quadrant is as
\* wide as its units and the gaps between them, so that unit_width is exact
PanelLayout(cols, rows) ==
    LayoutParams(cols, rows, cols * 4 + (cols - 1), rows * 5 + (rows - 1),
                 2, 3, 3, 1)

\* LayoutParams.unit_width
unit_width(layout) ==
    IF layout.panel_cols <= 0 THEN 0
    ELSE (layout.quad_width - ((layout.panel_cols - 1) * layout.gap_unit))
            \div layout.panel_cols

\* LayoutParams.unit_height
unit_height(layout) ==
    IF layout.panel_rows <= 0 THEN 0
    ELSE (layout.quad_height - ((layout.panel_rows - 1) * layout.gap_unit))
            \div layout.panel_rows

\* LayoutParams.get_unit_origin(col_index, row_index)
get_unit_origin(layout, col_index, row_index) ==
    LET left == col_index < layout.panel_cols
        start_x == IF left THEN layout.margin_x
                   ELSE layout.margin_x + layout.quad_width + layout.gap_mid
        local_col == IF left THEN col_index ELSE col_index - layout.panel_cols
        bottom == row_index < layout.panel_rows
        start_y == IF bottom THEN layout.margin_y
                   ELSE layout.margin_y + layout.quad_height + layout.gap_mid
        local_row == IF bottom THEN row_index ELSE row_index - layout.panel_rows
    IN [final_x |-> start_x + (local_col * unit_width(layout))
                            + (local_col * layout.gap_unit),
        final_y |-> start_y + (local_row * unit_height(layout))
                            + (local_row * layout.gap_unit)]

\* conditions that put the first column and row of the far half into the
\* near half
QuadrantOf_inclusive(x, y, layout) ==
    IF x <= layout.panel_cols /\ y <= layout.panel_rows THEN "Q1"
    ELSE IF x > layout.panel_cols /\ y <= layout.panel_rows THEN "Q2"
    ELSE IF x <= layout.panel_cols /\ y > layout.panel_rows THEN "Q3"
    ELSE IF x > layout.panel_cols /\ y > layout.panel_rows THEN "Q4"
    ELSE "Other"

\* np.select(conditions, ['Q1','Q2','Q3','Q4'], default='Other'): the first
\* condition that holds decides
QuadrantOf(x, y, layout) ==
    IF x < layout.panel_cols /\ y < layout.panel_rows THEN "Q1"
    ELSE IF x >= layout.panel_cols /\ y < layout.panel_rows THEN "Q2"
    ELSE IF x < layout.panel_cols /\ y >= layout.panel_rows THEN "Q3"
    ELSE IF x >= layout.panel_cols /\ y >= layout.panel_rows THEN "Q4"
    ELSE "Other"

\* base_x, base_y of _add_plotting_coordinates: the vectorised unit origin
base_origin(x, y, layout) ==
    LET local_col == x % layout.panel_cols
        x_start == IF x < layout.panel_cols THEN layout.margin_x
                   ELSE layout.margin_x + layout.quad_width + layout.gap_mid
        local_row == y % layout.panel_rows
        y_start == IF y < layout.panel_rows THEN layout.margin_y
                   ELSE layout.margin_y + layout.quad_height + layout.gap_mid
    IN [base_x |-> x_start + (local_col * unit_width(layout))
                           + (local_col * layout.gap_unit),
        base_y |-> y_start + (local_row * unit_height(layout))
                           + (local_row * layout.gap_unit)]

\* gap_shift_x, gap_shift_y of the spatial mode, from the QUADRANT label
gap_shift(quadrant, layout) ==
    [gap_shift_x |-> IF quadrant \in {"Q2", "Q4"} THEN layout.gap_mid ELSE 0,
     gap_shift_y |-> IF quadrant \in {"Q3", "Q4"} THEN layout.gap_mid ELSE 0]

\* variant of PhysicalXFlipped: mirrored about the number of units
PhysicalXFlipped_about_width(x, side, layout) ==
    IF side = "B" THEN (layout.panel_cols * 2) - x ELSE x

\* the flipped index of the stacked view: mirrored on the Back side only
PhysicalXFlipped(x, side, layout) ==
    IF side = "B" THEN (layout.panel_cols * 2 - 1) - x ELSE x

\* _add_plotting_coordinates on one row: the derived index columns
EnrichRow(r, side, layout) ==
    [UNIT_INDEX_X |-> r.UNIT_INDEX_X,
     UNIT_INDEX_Y |-> r.UNIT_INDEX_Y,
     DEFECT_TYPE |-> r.DEFECT_TYPE,
     Verification |-> r.Verification,
     HAS_VERIFICATION_DATA |-> r.HAS_VERIFICATION_DATA,
     PHYSICAL_X |-> r.PHYSICAL_X,
     QUADRANT |-> QuadrantOf(r.UNIT_INDEX_X, r.UNIT_INDEX_Y, layout),
     PHYSICAL_X_RAW |-> r.UNIT_INDEX_X,
     PHYSICAL_X_FLIPPED |-> PhysicalXFlipped(r.UNIT_INDEX_X, side, layout)]

\* BuildUpLayer(layer_num, side, raw_df, layout): __post_init__ enriches
\* raw_df (an empty frame is left alone)
BuildUpLayer(layer_num, side, raw_df, layout) ==
    [layer_num |-> layer_num,
     side |-> side,
     layout |-> layout,
     raw_df |-> [hasPX |-> raw_df.hasPX,
                 rows |-> [i \in 1..Len(raw_df.rows) |->
                              EnrichRow(raw_df.rows[i], side, layout)]]]

\* BuildUpLayer.label
LayerLabel(layer) ==
    <<"Layer ", layer.layer_num, IF layer.side = "F" THEN " (Front)" ELSE " (Back)">>

----------------------------------------------------------------------------
(* PanelData: the Panel Aggregate Store (src/models.py).  _layers is a dict  *)
(* of dicts; it is kept as the sequence of its (layer_num, side) entries in  *)
(* the order in which Python iterates the nested dicts.                      *)

\* position at which a new (layer_num, side) key appears in iteration order:
\* after the last entry of the same layer_num, else at the end
InsertPos(entries, layer_num) ==
    IF \E i \in DOMAIN entries : entries[i].layer_num = layer_num
    THEN 1 + (CHOOSE i \in DOMAIN entries :
                /\ entries[i].layer_num = layer_num
                /\ \A j \in DOMAIN entries :
                      entries[j].layer_num = layer_num => j <= i)
    ELSE Len(entries) + 1

InsertAt(entries, pos, e) ==
    SubSeq(entries, 1, pos - 1) \o <<e>> \o SubSeq(entries, pos, Len(entries))

HasEntry(entries, layer_num, side) ==
    \E i \in DOMAIN entries :
        entries[i].layer_num = layer_num /\ entries[i].side = side

EntryIndex(entries, layer_num, side) ==
    CHOOSE i \in DOMAIN entries :
        entries[i].layer_num = layer_num /\ entries[i].side = side

\* PanelData(): no layers, a fresh id
PanelData(id) == [id |-> id, layers |-> <<>>]

\* PanelData.add_layer
add_layer(p, layer) ==
    [p EXCEPT !.layers =
        IF HasEntry(p.layers, layer.layer_num, layer.side)
        THEN [p.layers EXCEPT
                 ![EntryIndex(p.layers, layer.layer_num, layer.side)] = layer]
        ELSE InsertAt(p.layers, InsertPos(p.layers, layer.layer_num), layer)]

\* PanelData.__bool__
PanelBool(p) == p.layers # <<>>

\* PanelData.get_all_layer_nums
get_all_layer_nums(p) ==
    SortedSeq({ p.layers[i].layer_num : i \in DOMAIN p.layers })

\* PanelData.get_layer: <<>> is None
get_layer(p, layer_num, side) ==
    IF HasEntry(p.layers, layer_num, side)
    THEN <<p.layers[EntryIndex(p.layers, layer_num, side)]>>
    ELSE <<>>

\* a tagging that writes the Front side on every row
TagRow_front(r, layer) ==
    [UNIT_INDEX_X |-> r.UNIT_INDEX_X,
     UNIT_INDEX_Y |-> r.UNIT_INDEX_Y,
     DEFECT_TYPE |-> r.DEFECT_TYPE,
     Verification |-> r.Verification,
     HAS_VERIFICATION_DATA |-> r.HAS_VERIFICATION_DATA,
     PHYSICAL_X |-> r.PHYSICAL_X,
     QUADRANT |-> r.QUADRANT,
     PHYSICAL_X_RAW |-> r.PHYSICAL_X_RAW,
     PHYSICAL_X_FLIPPED |-> r.PHYSICAL_X_FLIPPED,
     LAYER_NUM |-> layer.layer_num,
     SIDE |-> "F",
     Layer_Label |-> LayerLabel(layer)]

\* one row of the combined view: the layer's row plus its metadata
TagRow(r, layer) ==
    [UNIT_INDEX_X |-> r.UNIT_INDEX_X,
     UNIT_INDEX_Y |-> r.UNIT_INDEX_Y,
     DEFECT_TYPE |-> r.DEFECT_TYPE,
     Verification |-> r.Verification,
     HAS_VERIFICATION_DATA |-> r.HAS_VERIFICATION_DATA,
     PHYSICAL_X |-> r.PHYSICAL_X,
     QUADRANT |-> r.QUADRANT,
     PHYSICAL_X_RAW |-> r.PHYSICAL_X_RAW,
     PHYSICAL_X_FLIPPED |-> r.PHYSICAL_X_FLIPPED,
     LAYER_NUM |-> layer.layer_num,
     SIDE |-> layer.side,
     Layer_Label |-> LayerLabel(layer)]

\* filter_func(df) on one row: None keeps every row, true_defect_filter of
\* prepare_multi_layer_data the rows whose code is not in the safe set
filter_func_keeps(filter_func, r) ==
    filter_func = "true_defect_filter" =>
        r.Verification \notin SAFE_VERIFICATION_VALUES_UPPER

\* PanelData.get_combined_dataframe(filter_func): frames that are empty after
\* the filter are skipped
get_combined_dataframe(p, filter_func) ==
    LET Keep(r) == filter_func_keeps(filter_func, r)
        frame(i) ==
            SelectSeq([k \in 1..Len(p.layers[i].raw_df.rows) |->
                          TagRow(p.layers[i].raw_df.rows[k], p.layers[i])], Keep)
        dfs == [i \in 1..Len(p.layers) |-> frame(i)]
    IN [hasPX |-> \E i \in DOMAIN p.layers :
                     frame(i) # <<>> /\ p.layers[i].raw_df.hasPX,
        rows |-> FlatRows(dfs)]


----------------------------------------------------------------------------
(* load_data (src/data_handler.py).  An uploaded file is                     *)
(*   [match, layer_num, side, has_sheet, columns, rows]                      *)
(* match, layer_num, side: what re.match(r"BU-(\d{2})\s*([FB])") finds in    *)
(* its name; has_sheet: it has a 'Defects' sheet; columns: the columns of    *)
(* the sheet; rows: the sheet's rows, VERIFICATION being a cell.             *)

REQUIRED_COLUMNS == {"DEFECT_ID", "DEFECT_TYPE", "UNIT_INDEX_X", "UNIT_INDEX_Y"}

\* one row of a file's frame after the clean-up of load_data
LoadRow(r, has_verification_data, side, cols) ==
    [UNIT_INDEX_X |-> r.UNIT_INDEX_X,
     UNIT_INDEX_Y |-> r.UNIT_INDEX_Y,
     DEFECT_TYPE |-> str_strip(r.DEFECT_TYPE),
     Verification |-> IF has_verification_data
                      THEN NormalizeVerification(r.VERIFICATION)
                      ELSE UNDER_VERIFICATION,
     HAS_VERIFICATION_DATA |-> has_verification_data,
     PHYSICAL_X |-> IF side = "B"
                    THEN <<(2 * cols - 1) - r.UNIT_INDEX_X>>
                    ELSE <<r.UNIT_INDEX_X>>]

\* variant of FileAccepted: the columns of the sheet are not looked at
FileAccepted_any_columns(f) == f.match /\ f.has_sheet

\* the file is read and kept: its name matches, the sheet exists and no
\* required column is missing
FileAccepted(f) ==
    f.match /\ f.has_sheet /\ REQUIRED_COLUMNS \subseteq f.columns

\* temp_data[layer_num][side].append(df), temp_data kept as the entries
\* [layer_num, side, rows] in dict order, rows the concatenation of the list
TempAppend(temp, f, cols) ==
    LET df == [i \in 1..Len(f.rows) |->
                  LoadRow(f.rows[i], "Verification" \in f.columns, f.side, cols)]
    IN IF HasEntry(temp, f.layer_num, f.side)
       THEN [temp EXCEPT ![EntryIndex(temp, f.layer_num, f.side)].rows = @ \o df]
       ELSE InsertAt(temp, InsertPos(temp, f.layer_num),
                     [layer_num |-> f.layer_num, side |-> f.side, rows |-> df])

RECURSIVE ReadFiles(_, _, _)
\* the loop over uploaded_files: a rejected file is skipped
ReadFiles(files, temp, cols) ==
    IF files = <<>> THEN temp
    ELSE ReadFiles(Tail(files),
                   IF FileAccepted(Head(files))
                   THEN TempAppend(temp, Head(files), cols) ELSE temp,
                   cols)

RECURSIVE BuildPanel(_, _, _, _)
\* "Build PanelData": one BuildUpLayer per (layer_num, side); has_px says
\* whether the frames carry a PHYSICAL_X column
BuildPanel(p, temp, layout, has_px) ==
    IF temp = <<>> THEN p
    ELSE BuildPanel(
            add_layer(p, BuildUpLayer(Head(temp).layer_num, Head(temp).side,
                                      [hasPX |-> has_px, rows |-> Head(temp).rows],
                                      layout)),
            Tail(temp), layout, has_px)

\* one generated row of the sample data: no PHYSICAL_X column
SampleRow(r) ==
    [UNIT_INDEX_X |-> r.UNIT_INDEX_X,
     UNIT_INDEX_Y |-> r.UNIT_INDEX_Y,
     DEFECT_TYPE |-> r.DEFECT_TYPE,
     Verification |-> r.Verification,
     HAS_VERIFICATION_DATA |-> TRUE,
     PHYSICAL_X |-> <<>>]

\* load_data(uploaded_files, panel_rows, panel_cols): id is the id of the new
\* PanelData; sample is what the generator of the no-file branch draws, a
\* sequence of [layer_num, side, rows]
load_data(files, sample, rows, cols, id) ==
    IF files # <<>>
    THEN BuildPanel(PanelData(id), ReadFiles(files, <<>>, cols),
                    PanelLayout(cols, rows), TRUE)
    ELSE BuildPanel(PanelData(id),
                    [i \in 1..Len(sample) |->
                        [layer_num |-> sample[i].layer_num,
                         side |-> sample[i].side,
                         rows |-> [k \in 1..Len(sample[i].rows) |->
                                      SampleRow(sample[i].rows[k])]]],
                    PanelLayout(cols, rows), FALSE)


----------------------------------------------------------------------------
(* Formatting of numbers and labels *)

Digits == <<"0","1","2","3","4","5","6","7","8","9">>

RECURSIVE IntToStr(_)
\* str(n) of a non-negative integer, as its decimal digits
IntToStr(n) ==
    IF n < 10 THEN <<Digits[n + 1]>>
    ELSE IntToStr(n \div 10) \o <<Digits[(n % 10) + 1]>>

RECURSIVE JoinStr(_, _)
\* sep.join(parts)
JoinStr(parts, sep) ==
    IF parts = <<>> THEN <<>>
    ELSE IF Len(parts) = 1 THEN parts[1]
    ELSE parts[1] \o sep \o JoinStr(Tail(parts), sep)

----------------------------------------------------------------------------
(* The aggregations (src/analysis/calculations.py) *)

\* FilterContext(...); NoContext stands for filter_context=None
FilterContext(sel_layers, sel_sides, verif, quadrant, excl_layers, excl_types) ==
    [is_none |-> FALSE,
     selected_layers |-> sel_layers,
     selected_sides |-> sel_sides,
     verification_filter |-> verif,
     quadrant_filter |-> quadrant,
     excluded_layers |-> excl_layers,
     excluded_defect_types |-> excl_types]

NoContext ==
    [is_none |-> TRUE,
     selected_layers |-> None,
     selected_sides |-> None,
     verification_filter |-> None,
     quadrant_filter |-> "All",
     excluded_layers |-> None,
     excluded_defect_types |-> None]

\* a filter that keeps every record, the Safe ones too
IsAnyRecord(r) == TRUE

\* ~df['Verification'].isin(SAFE_VERIFICATION_VALUES_UPPER)
IsTrueDefect(r) == r.Verification \notin SAFE_VERIFICATION_VALUES_UPPER

EmptyDict == [k \in {} |-> {}]

\* the filters get_true_defect_coordinates applies before the True-Defect
\* filter
ResolverKeep(r, fc) ==
    \/ fc.is_none
    \/ /\ Truthy(fc.excluded_layers) => r.LAYER_NUM \notin fc.excluded_layers.vals
       /\ Truthy(fc.selected_sides) => r.SIDE \in fc.selected_sides.vals
       /\ Truthy(fc.excluded_defect_types) =>
             r.Verification \notin fc.excluded_defect_types.vals

\* the grouping column of the resolver: PHYSICAL_X, or UNIT_INDEX_X when the
\* frame has no PHYSICAL_X column; <<>> is NaN
ResolverX(r, has_px) == IF has_px THEN r.PHYSICAL_X ELSE <<r.UNIT_INDEX_X>>

\* "L{n}: {count}"
SummaryPart(n, count) == <<"L">> \o IntToStr(n) \o <<":", " ">> \o IntToStr(count)

\* get_true_defect_coordinates(_panel_data, filter_context), the function body
get_true_defect_coordinates(p, fc) ==
    IF ~PanelBool(p) THEN EmptyDict
    ELSE
    LET all_layers_df == get_combined_dataframe(p, "None")
        Kept(r) == ResolverKeep(r, fc)
        filtered == SelectSeq(all_layers_df.rows, Kept)
        true_defects == SelectSeq(filtered, IsTrueDefect)
        \* groupby drops the rows whose key is NaN
        HasKey(r) == ResolverX(r, all_layers_df.hasPX) # <<>>
        keyed == SelectSeq(true_defects, HasKey)
        KeyOf(r) == <<ResolverX(r, all_layers_df.hasPX)[1], r.UNIT_INDEX_Y>>
        units == { KeyOf(keyed[i]) : i \in DOMAIN keyed }
        LayersAt(u) == { keyed[i].LAYER_NUM : i \in { j \in DOMAIN keyed : KeyOf(keyed[j]) = u } }
        CountAt(u, n) ==
            Cardinality({ j \in DOMAIN keyed : KeyOf(keyed[j]) = u /\ keyed[j].LAYER_NUM = n })
        SummaryOf(u) ==
            LET ls == SortedSeq(LayersAt(u))
            IN JoinStr([i \in 1..Len(ls) |-> SummaryPart(ls[i], CountAt(u, ls[i]))],
                       <<",", " ">>)
        FirstKiller(u) == CHOOSE n \in LayersAt(u) : \A m \in LayersAt(u) : n <= m
    IN IF all_layers_df.rows = <<>> \/ filtered = <<>> \/ true_defects = <<>>
       THEN EmptyDict
       ELSE [u \in units |->
                [first_killer_layer |-> FirstKiller(u),
                 defect_summary |-> SummaryOf(u)]]

\* prepare_multi_layer_data(_panel_data, panel_uid), the function body
prepare_multi_layer_data(p) ==
    IF ~PanelBool(p) THEN <<>>
    ELSE get_combined_dataframe(p, "true_defect_filter").rows

\* np.histogram2d bin of a coordinate: nbins equal bins over [lo, hi], the
\* last bin closed on the right
BinOf(v, nbins, lo, hi) ==
    IF v = hi THEN nbins - 1 ELSE ((v - lo) * nbins) \div (hi - lo)

\* np.zeros((n_rows, n_cols)): a matrix is a sequence of rows, entry [i][j] of
\* the array being m[i + 1][j + 1]
Zeros(n_rows, n_cols) == [i \in 1..n_rows |-> [j \in 1..n_cols |-> 0]]

MatrixSum(m) == SeqSum([i \in 1..Len(m) |-> SeqSum(m[i])])

MatrixMax(m) ==
    LET vals == UNION { Range(m[i]) : i \in DOMAIN m }
    IN CHOOSE a \in vals : \A b \in vals : b <= a

\* a valid_mask that lets the index just beyond the grid through
valid_mask_closed(r, total_rows, total_cols) ==
    /\ r.UNIT_INDEX_X >= 0 /\ r.UNIT_INDEX_X <= total_cols
    /\ r.UNIT_INDEX_Y >= 0 /\ r.UNIT_INDEX_Y <= total_rows

\* valid_mask of aggregate_stress_data_from_df on one row
valid_mask(r, total_rows, total_cols) ==
    /\ r.UNIT_INDEX_X >= 0 /\ r.UNIT_INDEX_X < total_cols
    /\ r.UNIT_INDEX_Y >= 0 /\ r.UNIT_INDEX_Y < total_rows

\* StressMapData(grid_counts, hover_text, total_defects, max_count)
StressMapData(grid_counts, hover_text, total_defects, max_count) ==
    [grid_counts |-> grid_counts, hover_text |-> hover_text,
     total_defects |-> total_defects, max_count |-> max_count]

\* np.empty((n_rows, n_cols), dtype=object): every entry None, written <<>>
EmptyObjects(n_rows, n_cols) == [i \in 1..n_rows |-> [j \in 1..n_cols |-> <<>>]]

NO_DEFECTS == <<"N","o"," ","D","e","f","e","c","t","s">>

\* hover_text[:] = "No Defects"
NoDefects(n_rows, n_cols) == [i \in 1..n_rows |-> [j \in 1..n_cols |-> NO_DEFECTS]]

\* the code point order of the letters and digits
Ord(c) == CHOOSE i \in 1..62 : (Digits \o Upper \o Lower)[i] = c

RECURSIVE StrLess(_, _)
\* a < b on str
StrLess(a, b) ==
    IF b = <<>> THEN FALSE
    ELSE IF a = <<>> THEN TRUE
    ELSE IF Head(a) = Head(b) THEN StrLess(Tail(a), Tail(b))
    ELSE Ord(Head(a)) < Ord(Head(b))

\* the types of the cell (y, x) as type_counts holds them after sort_values:
\* groupby leaves them in ascending order of the type, and the sort by
\* descending Count keeps that order among equal counts
RankedTypes(valid, y, x) ==
    LET at == { k \in DOMAIN valid :
                  valid[k].UNIT_INDEX_Y = y /\ valid[k].UNIT_INDEX_X = x }
        types == { valid[k].DEFECT_TYPE : k \in at }
        Count(t) == Cardinality({ k \in at : valid[k].DEFECT_TYPE = t })
        Before(a, b) == Count(a) > Count(b)
                        \/ (Count(a) = Count(b) /\ StrLess(a, b))
    IN [i \in 1..Cardinality(types) |->
           CHOOSE t \in types :
               Cardinality({ a \in types : Before(a, t) }) = i - 1]

\* the tooltip of a populated cell for the ranked types of the cell: the
\* total, the first three "Type: Count" lines and the number of further types
TooltipText(valid, y, x, ranked) ==
    LET at == { k \in DOMAIN valid :
                  valid[k].UNIT_INDEX_Y = y /\ valid[k].UNIT_INDEX_X = x }
        count == Len(ranked)
        top_3 == SubSeq(ranked, 1, IF count < 3 THEN count ELSE 3)
        lines == [i \in 1..Len(top_3) |->
                    top_3[i] \o <<":", " ">>
                    \o IntToStr(Cardinality({ k \in at :
                           valid[k].DEFECT_TYPE = top_3[i] }))]
    IN <<"<","b",">","T","o","t","a","l",":"," ">>
       \o IntToStr(Cardinality(at)) \o <<"<","/","b",">">>
       \o <<"<","b","r",">">> \o JoinStr(lines, <<"<","b","r",">">>)
       \o (IF count > 3
           THEN <<"<","b","r",">",".",".","."," ","(","+">>
                \o IntToStr(count - 3) \o <<" ","t","y","p","e","s",")">>
           ELSE <<>>)

\* hover_text[y, x] of a populated cell
Tooltip(valid, y, x) ==
    IF "DEFECT_TYPE" \in DOMAIN valid[1]
    THEN TooltipText(valid, y, x, RankedTypes(valid, y, x))
    ELSE <<"<","b",">","T","o","t","a","l",":"," ">>
         \o IntToStr(Cardinality({ k \in DOMAIN valid :
                valid[k].UNIT_INDEX_Y = y /\ valid[k].UNIT_INDEX_X = x }))
         \o <<"<","/","b",">">>

\* aggregate_stress_data_from_df(df, panel_rows, panel_cols)
aggregate_stress_data_from_df(rows, p_rows, p_cols) ==
    LET total_cols == p_cols * 2
        total_rows == p_rows * 2
        Valid(r) == valid_mask(r, total_rows, total_cols)
        valid == SelectSeq(rows, Valid)
        hist == [i \in 1..total_rows |-> [j \in 1..total_cols |->
                    Cardinality({ k \in DOMAIN valid :
                        /\ BinOf(valid[k].UNIT_INDEX_Y, total_rows, 0, total_rows) = i - 1
                        /\ BinOf(valid[k].UNIT_INDEX_X, total_cols, 0, total_cols) = j - 1 })]]
        total == MatrixSum(hist)
        hover_text == [i \in 1..total_rows |-> [j \in 1..total_cols |->
                          IF \E k \in DOMAIN valid :
                                /\ valid[k].UNIT_INDEX_Y = i - 1
                                /\ valid[k].UNIT_INDEX_X = j - 1
                          THEN Tooltip(valid, i - 1, j - 1)
                          ELSE NO_DEFECTS]]
    IN IF rows = <<>> \/ valid = <<>>
       THEN StressMapData(Zeros(total_rows, total_cols),
                          NoDefects(total_rows, total_cols), 0, 0)
       ELSE StressMapData(hist, hover_text, total,
                          IF total > 0 THEN MatrixMax(hist) ELSE 0)

\* the filters shared by aggregate_stress_data and calculate_yield_killers
ContextKeep(r, fc) ==
    \/ fc.is_none
    \/ /\ Truthy(fc.selected_layers) => r.LAYER_NUM \in fc.selected_layers.vals
       /\ Truthy(fc.selected_sides) => r.SIDE \in fc.selected_sides.vals
       /\ Truthy(fc.verification_filter) =>
             r.Verification \in fc.verification_filter.vals
       /\ fc.quadrant_filter # "All" => r.QUADRANT = fc.quadrant_filter

\* aggregate_stress_data(_panel_data, filter_context, panel_rows, panel_cols),
\* the function body
aggregate_stress_data(p, fc, p_rows, p_cols) ==
    IF ~PanelBool(p)
    THEN StressMapData(Zeros(p_rows * 2, p_cols * 2),
                       EmptyObjects(p_rows * 2, p_cols * 2), 0, 0)
    ELSE
    LET df == get_combined_dataframe(p, "None").rows
        Kept(r) == ContextKeep(r, fc)
    IN IF df = <<>>
       THEN StressMapData(Zeros(p_rows * 2, p_cols * 2),
                          EmptyObjects(p_rows * 2, p_cols * 2), 0, 0)
       ELSE aggregate_stress_data_from_df(
                SelectSeq(SelectSeq(df, Kept), IsTrueDefect), p_rows, p_cols)


\* an exception that leaves the function instead of a return value
Raise(exception) == [raised |-> exception]

\* the outcome of a call is an exception
Raised(outcome) == DOMAIN outcome = {"raised"}

\* df['LAYER_NUM'] and df['SIDE'] on the frame without columns that
\* get_combined_dataframe returns when no layer holds a record: the lookup of
\* a selection filter raises KeyError before the frame is tested for emptiness
SelectionRaises(p, fc) ==
    /\ get_combined_dataframe(p, "None").rows = <<>>
    /\ ~fc.is_none
    /\ Truthy(fc.selected_layers) \/ Truthy(fc.selected_sides)

\* Optional[YieldKillerMetrics]: None
NoMetrics ==
    [absent |-> TRUE, top_killer_layer |-> <<>>, top_killer_count |-> 0,
     worst_unit |-> <<>>, worst_unit_count |-> 0,
     side_bias |-> "", side_bias_diff |-> 0]

\* the True-Defect rows calculate_yield_killers counts
YieldKillerRows(p, fc) ==
    LET Kept(r) == ContextKeep(r, fc)
    IN SelectSeq(SelectSeq(get_combined_dataframe(p, "None").rows, Kept),
                 IsTrueDefect)

\* df['LAYER_NUM'].value_counts() as layer -> count
LayerCounts(df) ==
    [n \in { df[i].LAYER_NUM : i \in DOMAIN df } |->
        Cardinality({ i \in DOMAIN df : df[i].LAYER_NUM = n })]

\* variant of TopKillerChoices: any counted layer
TopKillerChoices_any(df) == DOMAIN LayerCounts(df)

\* the layers value_counts().idxmax() can return: value_counts orders equal
\* counts in no specified way, so any layer of maximal count can come first
TopKillerChoices(df) ==
    { n \in DOMAIN LayerCounts(df) :
        \A m \in DOMAIN LayerCounts(df) : LayerCounts(df)[m] <= LayerCounts(df)[n] }

\* df.groupby(['UNIT_INDEX_X', 'UNIT_INDEX_Y']).size() as unit -> count
UnitCounts(df) ==
    [u \in { <<df[i].UNIT_INDEX_X, df[i].UNIT_INDEX_Y>> : i \in DOMAIN df } |->
        Cardinality({ i \in DOMAIN df :
            <<df[i].UNIT_INDEX_X, df[i].UNIT_INDEX_Y>> = u })]

LexLess(u, v) == u[1] < v[1] \/ (u[1] = v[1] /\ u[2] < v[2])

\* variant of WorstUnit: the first key in sorted order
WorstUnit_first(df) ==
    CHOOSE u \in DOMAIN UnitCounts(df) :
        \A v \in DOMAIN UnitCounts(df) : v = u \/ LexLess(u, v)

\* unit_counts.idxmax(): the first maximum in the sorted order of the keys
WorstUnit(df) ==
    CHOOSE u \in DOMAIN UnitCounts(df) :
        /\ \A v \in DOMAIN UnitCounts(df) : UnitCounts(df)[v] <= UnitCounts(df)[u]
        /\ \A v \in DOMAIN UnitCounts(df) :
              UnitCounts(df)[v] = UnitCounts(df)[u] => (v = u \/ LexLess(u, v))

\* variant of Abs: the signed difference
Abs_signed(n) == n

Abs(n) == IF n < 0 THEN -n ELSE n

\* calculate_yield_killers(_panel_data, panel_rows, panel_cols,
\* filter_context), the function body; top is the layer idxmax() returns
calculate_yield_killers(p, p_rows, p_cols, fc, top) ==
    IF ~PanelBool(p) THEN NoMetrics
    ELSE IF SelectionRaises(p, fc) THEN Raise("KeyError")
    ELSE
    LET df == YieldKillerRows(p, fc)
        IsF(r) == r.SIDE = "F"
        IsB(r) == r.SIDE = "B"
        f_count == Len(SelectSeq(df, IsF))
        b_count == Len(SelectSeq(df, IsB))
    IN IF df = <<>> THEN NoMetrics
       ELSE [absent |-> FALSE,
             top_killer_layer |-> <<"L","a","y","e","r"," ">> \o IntToStr(top),
             top_killer_count |-> LayerCounts(df)[top],
             worst_unit |-> <<"X",":">> \o IntToStr(WorstUnit(df)[1])
                            \o <<",", " ", "Y", ":">> \o IntToStr(WorstUnit(df)[2]),
             worst_unit_count |-> UnitCounts(df)[WorstUnit(df)],
             side_bias |-> IF f_count > b_count THEN "Front Side"
                           ELSE IF b_count > f_count THEN "Back Side"
                           ELSE "Balanced",
             side_bias_diff |-> Abs(f_count - b_count)]

\* the filters of get_cross_section_matrix
CrossSectionKeep(r, fc) ==
    \/ fc.is_none
    \/ /\ Truthy(fc.selected_layers) => r.LAYER_NUM \in fc.selected_layers.vals
       /\ Truthy(fc.selected_sides) => r.SIDE \in fc.selected_sides.vals
       /\ Truthy(fc.verification_filter) =>
             r.Verification \in fc.verification_filter.vals

\* f"L{num}"
LayerTag(num) == <<"L">> \o IntToStr(num)

\* width_dim of a slice: the extent of the axis the slice runs along
width_dim_swapped(slice_axis, p_rows, p_cols) ==
    IF slice_axis = "Y" THEN p_rows * 2 ELSE p_cols * 2

width_dim(slice_axis, p_rows, p_cols) ==
    IF slice_axis = "Y" THEN p_cols * 2 ELSE p_rows * 2

\* get_cross_section_matrix(_panel_data, slice_axis, slice_index, panel_rows,
\* panel_cols, filter_context), the function body
get_cross_section_matrix(p, slice_axis, slice_index, p_rows, p_cols, fc) ==
    LET sorted_layers == get_all_layer_nums(p)
        width == width_dim(slice_axis, p_rows, p_cols)
        axis_labels == [i \in 1..width |-> IntToStr(i - 1)]
        layer_labels == [i \in 1..Len(sorted_layers) |-> LayerTag(sorted_layers[i])]
        Kept(r) == CrossSectionKeep(r, fc)
        df == SelectSeq(get_combined_dataframe(p, "None").rows, Kept)
        true_df == SelectSeq(df, IsTrueDefect)
        InSlice(r) == IF slice_axis = "Y" THEN r.UNIT_INDEX_Y = slice_index
                      ELSE r.UNIT_INDEX_X = slice_index
        sliced == SelectSeq(true_df, InSlice)
        Target(r) == IF slice_axis = "Y" THEN r.UNIT_INDEX_X ELSE r.UNIT_INDEX_Y
        \* counts = sliced.groupby(['LAYER_NUM', target_col]).size()
        groups == { <<sliced[k].LAYER_NUM, Target(sliced[k])>> : k \in DOMAIN sliced }
        GroupSize(g) ==
            Cardinality({ k \in DOMAIN sliced :
                <<sliced[k].LAYER_NUM, Target(sliced[k])>> = g })
        \* the groups the fill loop writes into the matrix
        filled == { g \in groups :
                      /\ g[1] \in Range(sorted_layers)
                      /\ 0 <= g[2] /\ g[2] < width }
        Cell(i, coord) ==
            IF <<sorted_layers[i], coord>> \in filled
            THEN GroupSize(<<sorted_layers[i], coord>>) ELSE 0
    IN IF sorted_layers = <<>>
       THEN [matrix |-> Zeros(0, 0), layer_labels |-> <<>>, axis_labels |-> <<>>]
       ELSE IF SelectionRaises(p, fc) THEN Raise("KeyError")
       ELSE [matrix |-> IF df = <<>> \/ sliced = <<>>
                        THEN Zeros(Len(sorted_layers), width)
                        ELSE [i \in 1..Len(sorted_layers) |->
                                 [j \in 1..width |-> Cell(i, j - 1)]],
             layer_labels |-> layer_labels,
             axis_labels |-> axis_labels]


----------------------------------------------------------------------------
(* Inputs of the model *)

Dims == 1..MaxDim
Idx == 0..MaxIdx
LayerNums == 1..MaxLayer
Sides == {"F", "B"}

\* unit cells on the two axes: inside the grid and beyond its last index
AxisCells == { c \in Idx \X Idx : c[1] = 0 \/ c[2] = 0 }

TypeA == <<"A">>
CU10 == <<"C","U","1","0">>

\* cells of a VERIFICATION column: empty, blank, a padded lower-case Safe
\* code and a lower-case defect code
RawCells == { NaN, Text(<<" ">>), Text(<<"n"," ">>), Text(<<"c","u","1","0">>) }

RawRow(x, y, cell) ==
    [UNIT_INDEX_X |-> x, UNIT_INDEX_Y |-> y, DEFECT_TYPE |-> TypeA,
     VERIFICATION |-> cell]

\* rows of a sheet: a defect in the first row of the panel, at its first
\* columns and at the largest index, and every kind of cell at the origin
FileRows ==
    { RawRow(x, 0, Text(CU10)) : x \in {0, 1, MaxIdx} }
    \cup { RawRow(0, 1, Text(CU10)) }
    \cup { RawRow(0, 0, cell) : cell \in RawCells }

AllColumns == REQUIRED_COLUMNS \cup {"Verification"}

File(match, layer_num, side, has_sheet, columns, rows) ==
    [match |-> match, layer_num |-> layer_num, side |-> side,
     has_sheet |-> has_sheet, columns |-> columns, rows |-> rows]

Files ==
    { File(TRUE, n, sd, TRUE, AllColumns, rs) :
        n \in LayerNums, sd \in Sides,
        rs \in {<<>>} \cup { <<r>> : r \in FileRows } }
    \cup
    { File(TRUE, n, sd, TRUE, REQUIRED_COLUMNS, rs) :
        n \in LayerNums, sd \in Sides,
        rs \in {<<>>, <<RawRow(0, 0, NaN)>>} }
    \cup
    { File(FALSE, 1, "F", TRUE, AllColumns, <<RawRow(0, 0, Text(CU10))>>),
      File(TRUE, 1, "F", FALSE, AllColumns, <<RawRow(0, 0, Text(CU10))>>),
      File(TRUE, 1, "F", TRUE, AllColumns \ {"UNIT_INDEX_X"},
           <<RawRow(0, 0, Text(CU10))>>) }

FileLists == UNION { [1..n -> Files] : n \in 1..MaxFiles }

\* rows of a frame handed to BuildUpLayer directly, as the tests build a
\* store: a defect code or a false-alarm code, no PHYSICAL_X column
DirectRow(x, y, code) ==
    [UNIT_INDEX_X |-> x, UNIT_INDEX_Y |-> y, DEFECT_TYPE |-> TypeA,
     Verification |-> code, HAS_VERIFICATION_DATA |-> TRUE, PHYSICAL_X |-> <<>>]

DirectRows ==
    { DirectRow(c[1], c[2], CU10) : c \in AxisCells }
    \cup { DirectRow(0, 0, <<"N">>) }

\* what the sample generator can draw: cells inside the grid, a false-alarm
\* code or a defect code
SampleRows(rows, cols) ==
    { [UNIT_INDEX_X |-> x, UNIT_INDEX_Y |-> y, DEFECT_TYPE |-> TypeA,
       Verification |-> code] :
        x \in 0..(2 * cols - 1), y \in {0, 2 * rows - 1},
        code \in { <<"N">>, CU10 } }

\* the sample frames: Front and Back of the generated layer, one row each
Samples(rows, cols) ==
    { << [layer_num |-> 1, side |-> "F", rows |-> <<f>>],
         [layer_num |-> 1, side |-> "B", rows |-> <<b>>] >> :
        f \in SampleRows(rows, cols), b \in SampleRows(rows, cols) }

\* contexts of the still-alive view: what-if exclusions and included sides,
\* each absent, empty or given
ResolverContexts ==
    { NoContext,
      FilterContext(None, None, None, "All", None, None),
      FilterContext(None, None, None, "All", Some({}), None),
      FilterContext(None, None, None, "All", Some({1}), None),
      FilterContext(None, Some({}), None, "All", None, None),
      FilterContext(None, Some({"F"}), None, "All", None, None),
      FilterContext(None, None, None, "All", None, Some({CU10})),
      FilterContext(None, Some({"B"}), None, "All", Some({2}), Some({})) }

\* contexts of the analysis views: selections
AnalysisContexts ==
    { NoContext,
      FilterContext(Some({1}), None, None, "All", None, None),
      FilterContext(None, Some({"B"}), None, "All", None, None),
      FilterContext(None, None, Some({CU10}), "All", None, None),
      FilterContext(Some({}), Some({}), Some({}), "Q1", None, None) }

----------------------------------------------------------------------------
(* The engine applied to the store, without memoization *)

NoCall == [fn |-> "none", args |-> <<>>, val |-> <<>>]

\* no package is being generated
NoReport ==
    [pc |-> "idle", status |-> <<>>, outcome |-> <<>>, future |-> <<>>,
     collected |-> 0, writing |-> {}, archive |-> <<>>, log |-> {}]

\* the session before run_analysis
NoSession ==
    [dataset_id |-> "None", uploaded |-> <<>>,
     analysis_params |-> [panel_rows |-> <<>>, panel_cols |-> <<>>,
                          panel_width |-> <<>>, panel_height |-> <<>>,
                          gap_x |-> <<>>, gap_y |-> <<>>,
                          dyn_gap_x |-> <<>>, dyn_gap_y |-> <<>>],
     multi_layer_selection |-> <<>>, analysis_side_pills |-> <<>>,
     loads |-> {}, data |-> <<>>, layer_data |-> <<>>, runs |-> 0]

\* no call is in progress
Idle == ret = NoCall

Init ==
    /\ panel_rows \in Dims
    /\ panel_cols \in Dims
    /\ uploaded_files = <<>>
    /\ panel = PanelData(1)
    /\ uuid_counter = 1
    /\ cache = EmptyDict
    /\ ret = NoCall
    /\ report = NoReport
    /\ session = NoSession

\* load_data(files, panel_rows, panel_cols) replaces the panel of the session
LoadData(files, sample) ==
    /\ uuid_counter < MaxPanels
    /\ panel' = load_data(files, sample, panel_rows, panel_cols, uuid_counter + 1)
    /\ uuid_counter' = uuid_counter + 1
    /\ uploaded_files' = files
    /\ ret' = NoCall
    /\ UNCHANGED <<panel_rows, panel_cols, cache, report, session>>

\* panel.add_layer(BuildUpLayer(layer_num, side, df, layout)) on a PanelData()
\* the caller built itself
AddLayer(layer_num, side, rows) ==
    /\ uuid_counter = 1
    /\ Len(panel.layers) < MaxFiles \/ HasEntry(panel.layers, layer_num, side)
    /\ panel' = add_layer(panel,
                    BuildUpLayer(layer_num, side, [hasPX |-> FALSE, rows |-> rows],
                                 PanelLayout(panel_cols, panel_rows)))
    /\ ret' = NoCall
    /\ UNCHANGED <<uploaded_files, panel_rows, panel_cols, uuid_counter, cache, report, session>>

Resolve(fc) ==
    /\ Idle
    /\ ret' = [fn |-> "get_true_defect_coordinates", args |-> <<fc>>,
               val |-> get_true_defect_coordinates(panel, fc)]
    /\ UNCHANGED <<uploaded_files, panel, panel_rows, panel_cols, uuid_counter, cache,
                 report, session>>

CrossSection(slice_axis, slice_index, fc) ==
    /\ Idle
    /\ ret' = [fn |-> "get_cross_section_matrix",
               args |-> <<slice_axis, slice_index, fc>>,
               val |-> get_cross_section_matrix(panel, slice_axis, slice_index,
                                                panel_rows, panel_cols, fc)]
    /\ UNCHANGED <<uploaded_files, panel, panel_rows, panel_cols, uuid_counter, cache,
                 report, session>>

StressMap(fc) ==
    /\ Idle
    /\ ret' = [fn |-> "aggregate_stress_data", args |-> <<fc>>,
               val |-> aggregate_stress_data(panel, fc, panel_rows, panel_cols)]
    /\ UNCHANGED <<uploaded_files, panel, panel_rows, panel_cols, uuid_counter, cache,
                 report, session>>

YieldKillers(fc) ==
    /\ Idle
    /\ \E top \in IF PanelBool(panel) /\ YieldKillerRows(panel, fc) # <<>>
                  THEN TopKillerChoices(YieldKillerRows(panel, fc)) ELSE {0} :
          ret' = [fn |-> "calculate_yield_killers", args |-> <<fc>>,
                  val |-> calculate_yield_killers(panel, panel_rows, panel_cols,
                                                  fc, top)]
    /\ UNCHANGED <<uploaded_files, panel, panel_rows, panel_cols, uuid_counter, cache,
                 report, session>>

MultiLayer ==
    /\ Idle
    /\ ret' = [fn |-> "prepare_multi_layer_data", args |-> <<>>,
               val |-> prepare_multi_layer_data(panel)]
    /\ UNCHANGED <<uploaded_files, panel, panel_rows, panel_cols, uuid_counter, cache,
                 report, session>>

\* the caller takes the returned value
Return ==
    /\ ret # NoCall
    /\ ret' = NoCall
    /\ UNCHANGED <<uploaded_files, panel, panel_rows, panel_cols, uuid_counter, cache,
                 report, session>>

\* the store is built first and only read afterwards: a panel is loaded into
\* a fresh session, or layers are added, before the first aggregation runs
Building == Idle /\ uuid_counter = 1

Next ==
    \/ /\ Building /\ ~PanelBool(panel)
       /\ \E files \in FileLists : LoadData(files, <<>>)
    \/ /\ Building /\ ~PanelBool(panel)
       /\ \E sample \in Samples(panel_rows, panel_cols) : LoadData(<<>>, sample)
    \/ /\ Building
       /\ \E n \in LayerNums, sd \in Sides,
             rs \in {<<>>} \cup { <<r>> : r \in DirectRows } : AddLayer(n, sd, rs)
    \/ Idle /\ \E fc \in ResolverContexts : Resolve(fc)
    \/ Idle /\ \E ax \in {"Y", "X"}, i \in Idx, fc \in { NoContext } :
                  CrossSection(ax, i, fc)
    \/ Idle /\ \E fc \in AnalysisContexts : StressMap(fc)
    \/ Idle /\ \E fc \in AnalysisContexts : YieldKillers(fc)
    \/ MultiLayer
    \/ Return

Spec == Init /\ [][Next]_vars

----------------------------------------------------------------------------
(* The Grid Aggregator applied to a frame of its own *)

\* records of a frame: indices inside the grid, below 0 and beyond it; Front
\* records in every row, Back records in row 1
GridRecords ==
    { [UNIT_INDEX_X |-> x, UNIT_INDEX_Y |-> y, SIDE |-> "F"] :
        x \in -1..MaxIdx, y \in Idx }
    \cup { [UNIT_INDEX_X |-> x, UNIT_INDEX_Y |-> 1, SIDE |-> "B"] : x \in -1..MaxIdx }

GridFrames == UNION { [1..n -> GridRecords] : n \in 0..MaxLen }

AggregateFromDf(df) ==
    /\ Idle
    /\ ret' = [fn |-> "aggregate_stress_data_from_df",
               args |-> <<df, panel_rows, panel_cols>>,
               val |-> aggregate_stress_data_from_df(df, panel_rows, panel_cols)]
    /\ UNCHANGED <<uploaded_files, panel, panel_rows, panel_cols, uuid_counter, cache,
                 report, session>>

NextGrid ==
    \/ Idle /\ \E df \in GridFrames : AggregateFromDf(df)
    \/ Return

SpecGrid == Init /\ [][NextGrid]_vars

----------------------------------------------------------------------------
(* The records of the store, as the properties below speak of them *)

\* the records the store holds, each named by its layer entry and its row
StoreRecords(p) ==
    UNION { { <<i, k>> : k \in DOMAIN p.layers[i].raw_df.rows } : i \in DOMAIN p.layers }

RecLayer(p, rk) == p.layers[rk[1]].layer_num
RecSide(p, rk) == p.layers[rk[1]].side
RecX(p, rk) == p.layers[rk[1]].raw_df.rows[rk[2]].UNIT_INDEX_X
RecY(p, rk) == p.layers[rk[1]].raw_df.rows[rk[2]].UNIT_INDEX_Y
RecCode(p, rk) == p.layers[rk[1]].raw_df.rows[rk[2]].Verification

\* physical_x of a record: mirrored on the Back side
MirroredX(p, rk) ==
    IF RecSide(p, rk) = "B"
    THEN (2 * p.layers[rk[1]].layout.panel_cols - 1) - RecX(p, rk)
    ELSE RecX(p, rk)

\* a code is Safe: trimmed and compared ignoring case, it is in the safe set
IsSafeCode(code) ==
    \E v \in SAFE_VERIFICATION_VALUES : str_upper(str_strip(code)) = str_upper(v)

TrueDefects(p) == { rk \in StoreRecords(p) : ~IsSafeCode(RecCode(p, rk)) }

\* the record passes the resolver's filters, an absent or empty list
\* restricting nothing
PassesResolverFilters(p, rk, fc) ==
    \/ fc.is_none
    \/ /\ RecLayer(p, rk) \notin fc.excluded_layers.vals
       /\ fc.selected_sides.vals # {} => RecSide(p, rk) \in fc.selected_sides.vals
       /\ RecCode(p, rk) \notin fc.excluded_defect_types.vals

MinOf(S) == CHOOSE a \in S : \A b \in S : a <= b

\* C2: the resolver's result has the key (physical_x, unit_index_y) exactly
\* when a True-Defect record that passes the filters lies at that cell, and
\* first_killer_layer of a key is the smallest layer number among the
\* True-Defect records at that cell.
C2_KeysAndFirstKiller ==
    ret.fn = "get_true_defect_coordinates" =>
        LET fc == ret.args[1]
            hits == { rk \in TrueDefects(panel) : PassesResolverFilters(panel, rk, fc) }
            At(u) == { rk \in hits :
                         MirroredX(panel, rk) = u[1] /\ RecY(panel, rk) = u[2] }
            cells == { <<MirroredX(panel, rk), RecY(panel, rk)>> : rk \in hits }
        IN /\ DOMAIN ret.val = cells
           /\ \A u \in DOMAIN ret.val \cap cells :
                 ret.val[u].first_killer_layer =
                     MinOf({ RecLayer(panel, rk) : rk \in At(u) })

\* the same statement for the panels whose frames carry the PHYSICAL_X column
\* load_data computes from the files
C2_OnUploadedFiles ==
    (\A i \in DOMAIN panel.layers : panel.layers[i].raw_df.hasPX) => C2_KeysAndFirstKiller

\* C3: every Back-side True-Defect record at raw (x, y) is resolved under the
\* key ((2*cols - 1) - x, y) and every Front-side record under (x, y); no key
\* is the raw index of a Back-side record that no record is mirrored to.
C3_SideAligned ==
    ret.fn = "get_true_defect_coordinates" /\ ret.args[1].is_none =>
        /\ \A rk \in TrueDefects(panel) :
              <<MirroredX(panel, rk), RecY(panel, rk)>> \in DOMAIN ret.val
        /\ \A u \in DOMAIN ret.val :
              \E rk \in TrueDefects(panel) :
                  MirroredX(panel, rk) = u[1] /\ RecY(panel, rk) = u[2]

\* C4: the entries of a Row slice at y sum to the number of True-Defect
\* records with unit_index_y = y, over all layers and sides.
C4_Completeness ==
    ret.fn = "get_cross_section_matrix" /\ ret.args[1] = "Y" =>
        MatrixSum(ret.val.matrix) =
            Cardinality({ rk \in TrueDefects(panel) : RecY(panel, rk) = ret.args[2] })

\* C4, for the records the matrix has a column for: the entries of a Row slice
\* at y sum to the number of True-Defect records with unit_index_y = y and
\* unit_index_x in [0, 2*cols); a Safe record and a record beyond the last
\* column add to no entry.
C4_CompletenessInGrid ==
    ret.fn = "get_cross_section_matrix" /\ ret.args[1] = "Y" =>
        MatrixSum(ret.val.matrix) =
            Cardinality({ rk \in TrueDefects(panel) :
                            /\ RecY(panel, rk) = ret.args[2]
                            /\ RecX(panel, rk) \in 0..(2 * panel_cols - 1) })

\* a Row slice of a store that holds, in the row of the slice, a True-Defect
\* record inside the grid and one beyond its last column
C4_Witness ==
    /\ ret.fn = "get_cross_section_matrix" /\ ret.args[1] = "Y"
    /\ \E rk \in TrueDefects(panel) :
          RecY(panel, rk) = ret.args[2] /\ RecX(panel, rk) >= 2 * panel_cols
    /\ \E rk \in TrueDefects(panel) :
          RecY(panel, rk) = ret.args[2] /\ RecX(panel, rk) < 2 * panel_cols
    /\ MatrixSum(ret.val.matrix) = 1

\* C5: the matrix has one row per layer number of the store, in ascending
\* order, labelled "L{layer}"; a Row slice is 2*cols wide and a Column slice
\* 2*rows wide; entry [i][p] is the number of True-Defect records of the i-th
\* layer at position p of the slice.
C5_Layout ==
    ret.fn = "get_cross_section_matrix" =>
        LET slice_axis == ret.args[1]
            slice_index == ret.args[2]
            nums == { panel.layers[i].layer_num : i \in DOMAIN panel.layers }
            Rank(n) == Cardinality({ m \in nums : m <= n })
            wide == IF slice_axis = "Y" THEN 2 * panel_cols ELSE 2 * panel_rows
            true_defects == TrueDefects(panel)
            AtPos(n, pos) ==
                { rk \in true_defects :
                    /\ RecLayer(panel, rk) = n
                    /\ IF slice_axis = "Y"
                       THEN RecY(panel, rk) = slice_index /\ RecX(panel, rk) = pos
                       ELSE RecX(panel, rk) = slice_index /\ RecY(panel, rk) = pos }
        IN /\ Len(ret.val.matrix) = Cardinality(nums)
           /\ Len(ret.val.layer_labels) = Cardinality(nums)
           /\ \A n \in nums :
                 /\ ret.val.layer_labels[Rank(n)] = <<"L">> \o IntToStr(n)
                 /\ Len(ret.val.matrix[Rank(n)]) = wide
                 /\ \A pos \in 0..(wide - 1) :
                       ret.val.matrix[Rank(n)][pos + 1] = Cardinality(AtPos(n, pos))

\* a Column slice of a panel with more rows than columns whose store holds
\* two layers, the second of them with a True-Defect in the slice
C5_Witness ==
    /\ ret.fn = "get_cross_section_matrix" /\ ret.args[1] = "X"
    /\ panel_rows > panel_cols
    /\ Len(ret.val.matrix) = 2
    /\ \E pos \in 1..(2 * panel_rows) : ret.val.matrix[2][pos] = 1

----------------------------------------------------------------------------
(* The cells of the uploaded files behind the records of the store *)

\* the VERIFICATION cells of the accepted files of one layer and side, in the
\* order of the upload: has_column says whether the file has the column
UploadedCells(files, layer_num, side) ==
    LET Mine(f) == FileAccepted(f) /\ f.layer_num = layer_num /\ f.side = side
        mine == SelectSeq(files, Mine)
    IN FlatRows([i \in 1..Len(mine) |->
                    [k \in 1..Len(mine[i].rows) |->
                        [has_column |-> "Verification" \in mine[i].columns,
                         cell |-> mine[i].rows[k].VERIFICATION]]])

\* a cell is blank: empty, or nothing but spaces
IsBlank(cell) == cell.isna \/ \A i \in DOMAIN cell.s : cell.s[i] = " "

\* the cell behind record rk of a store loaded from files
CellOf(rk) ==
    UploadedCells(uploaded_files, RecLayer(panel, rk), RecSide(panel, rk))[rk[2]]

\* the store was loaded from files and holds one record per row of a sheet
LoadedFromFiles ==
    /\ uploaded_files # <<>>
    /\ \A i \in DOMAIN panel.layers :
          Len(panel.layers[i].raw_df.rows) =
              Len(UploadedCells(uploaded_files, panel.layers[i].layer_num,
                                panel.layers[i].side))

----------------------------------------------------------------------------
(* Classification and filters *)

\* the code a record was given: the text of its cell for a record loaded from
\* a file that has the column and a filled cell, else the code the store holds
GivenCode(rk) ==
    IF /\ LoadedFromFiles
       /\ CellOf(rk).has_column
       /\ ~IsBlank(CellOf(rk).cell)
    THEN CellOf(rk).cell.s
    ELSE RecCode(panel, rk)

\* the records whose given code, trimmed and compared ignoring case, is not
\* in the safe set
GivenTrueDefects == { rk \in StoreRecords(panel) : ~IsSafeCode(GivenCode(rk)) }

InGrid(rk) ==
    /\ RecX(panel, rk) \in 0..(2 * panel_cols - 1)
    /\ RecY(panel, rk) \in 0..(2 * panel_rows - 1)

PassesGivenFilters(p, rk, fc) ==
    \/ fc.is_none
    \/ /\ RecLayer(p, rk) \notin fc.excluded_layers.vals
       /\ ~fc.selected_sides.isNone => RecSide(p, rk) \in fc.selected_sides.vals
       /\ RecCode(p, rk) \notin fc.excluded_defect_types.vals

\* C10: only the True-Defect records that pass the filters add to the
\* resolver's result - no record of an excluded layer, of a side outside the
\* included sides when these are given, of an excluded code or of a Safe code
\* does; an absent filter restricts nothing; the result is empty when no
\* such record is left.
C10_Filters ==
    ret.fn = "get_true_defect_coordinates" =>
        LET fc == ret.args[1]
            hits == { rk \in TrueDefects(panel) : PassesGivenFilters(panel, rk, fc) }
        IN /\ { u[2] : u \in DOMAIN ret.val } = { RecY(panel, rk) : rk \in hits }
           /\ \A u \in DOMAIN ret.val :
                 \E rk \in hits :
                     /\ RecY(panel, rk) = u[2]
                     /\ RecLayer(panel, rk) = ret.val[u].first_killer_layer
           /\ Cardinality(DOMAIN ret.val) <= Cardinality(hits)
           /\ hits = {} => ret.val = EmptyDict

\* the same statement with an empty list of included sides restricting
\* nothing, as an absent one
C10_AbsentOrEmpty ==
    ret.fn = "get_true_defect_coordinates" =>
        LET fc == ret.args[1]
            hits == { rk \in TrueDefects(panel) : PassesResolverFilters(panel, rk, fc) }
        IN /\ { u[2] : u \in DOMAIN ret.val } = { RecY(panel, rk) : rk \in hits }
           /\ \A u \in DOMAIN ret.val :
                 \E rk \in hits :
                     /\ RecY(panel, rk) = u[2]
                     /\ RecLayer(panel, rk) = ret.val[u].first_killer_layer
           /\ Cardinality(DOMAIN ret.val) <= Cardinality(hits)
           /\ hits = {} => ret.val = EmptyDict

----------------------------------------------------------------------------
(* The components that derive a quadrant, each applied to a unit index *)

\* quad_key of create_still_alive_map for a cell of its loops over
\* range(total_rows) and range(total_cols)
quad_key(col, row, p_rows, p_cols) ==
    LET quadrant_col == col \div p_cols
        quadrant_row == row \div p_rows
    IN <<"Q">> \o IntToStr(quadrant_row * 2 + quadrant_col + 1)

\* _add_plotting_coordinates on a record at (x, y)
Transform(x, y) ==
    /\ Idle
    /\ LET layout == PanelLayout(panel_cols, panel_rows)
           quadrant == QuadrantOf(x, y, layout)
       IN ret' = [fn |-> "_add_plotting_coordinates", args |-> <<x, y>>,
                  val |-> [QUADRANT |-> quadrant,
                           base |-> base_origin(x, y, layout),
                           shift |-> gap_shift(quadrant, layout)]]
    /\ UNCHANGED <<uploaded_files, panel, panel_rows, panel_cols, uuid_counter, cache,
                 report, session>>

UnitOrigin(x, y) ==
    /\ Idle
    /\ ret' = [fn |-> "get_unit_origin", args |-> <<x, y>>,
               val |-> get_unit_origin(PanelLayout(panel_cols, panel_rows), x, y)]
    /\ UNCHANGED <<uploaded_files, panel, panel_rows, panel_cols, uuid_counter, cache,
                 report, session>>

StillAliveCell(col, row) ==
    /\ Idle
    /\ col \in 0..(panel_cols * 2 - 1)
    /\ row \in 0..(panel_rows * 2 - 1)
    /\ ret' = [fn |-> "create_still_alive_map", args |-> <<col, row>>,
               val |-> quad_key(col, row, panel_rows, panel_cols)]
    /\ UNCHANGED <<uploaded_files, panel, panel_rows, panel_cols, uuid_counter, cache,
                 report, session>>

NextQuadrant ==
    \/ \E x \in -1..MaxIdx, y \in -1..MaxIdx : Transform(x, y)
    \/ \E x \in -1..MaxIdx, y \in -1..MaxIdx : UnitOrigin(x, y)
    \/ \E col \in Idx, row \in Idx : StillAliveCell(col, row)
    \/ Return

SpecQuadrant == Init /\ [][NextQuadrant]_vars

\* the quadrant of a unit index by the formula
FormulaQuadrant(x, y, rows, cols) ==
    CHOOSE q \in {"Q1", "Q2", "Q3", "Q4"} :
        /\ q = "Q1" <=> (x < cols /\ y < rows)
        /\ q = "Q2" <=> (x >= cols /\ y < rows)
        /\ q = "Q3" <=> (x < cols /\ y >= rows)
        /\ q = "Q4" <=> (x >= cols /\ y >= rows)

\* C6: the QUADRANT label of the transformer, the half of the panel in which
\* get_unit_origin and the transformer's base origin place a unit, the gap
\* shift of the spatial mode and the quadrant key of create_still_alive_map
\* all are those of the formula Q1 iff (x<cols, y<rows), Q2 iff (x>=cols,
\* y<rows), Q3 iff (x<cols, y>=rows), Q4 iff (x>=cols, y>=rows); exactly one
\* of Q1..Q4 is assigned.
C6_QuadrantConsistency ==
    LET layout == PanelLayout(panel_cols, panel_rows)
        q == FormulaQuadrant(ret.args[1], ret.args[2], panel_rows, panel_cols)
        right_from == layout.margin_x + layout.quad_width + layout.gap_mid
        top_from == layout.margin_y + layout.quad_height + layout.gap_mid
    IN
    /\ ret.fn = "_add_plotting_coordinates" =>
          /\ ret.val.QUADRANT = q
          /\ Cardinality({ k \in {"Q1", "Q2", "Q3", "Q4"} : ret.val.QUADRANT = k }) = 1
          /\ ret.val.base.base_x >= right_from <=> q \in {"Q2", "Q4"}
          /\ ret.val.base.base_y >= top_from <=> q \in {"Q3", "Q4"}
          /\ ret.val.shift.gap_shift_x = layout.gap_mid <=> q \in {"Q2", "Q4"}
          /\ ret.val.shift.gap_shift_y = layout.gap_mid <=> q \in {"Q3", "Q4"}
    /\ ret.fn = "get_unit_origin" =>
          /\ ret.val.final_x >= right_from <=> q \in {"Q2", "Q4"}
          /\ ret.val.final_y >= top_from <=> q \in {"Q3", "Q4"}
    /\ ret.fn = "create_still_alive_map" =>
          \/ ret.val = <<"Q", "1">> /\ q = "Q1"
          \/ ret.val = <<"Q", "2">> /\ q = "Q2"
          \/ ret.val = <<"Q", "3">> /\ q = "Q3"
          \/ ret.val = <<"Q", "4">> /\ q = "Q4"

\* the transformer has labelled a record in the first column of the right
\* half and the first row of the top half of a panel with more columns than
\* rows
C6_Witness ==
    /\ ret.fn = "_add_plotting_coordinates"
    /\ panel_cols > panel_rows
    /\ ret.args[1] = panel_cols /\ ret.args[2] = panel_rows
    /\ ret.val.QUADRANT = "Q4"

----------------------------------------------------------------------------
(* The memoized aggregations: @st.cache_data around each of them *)

\* @st.cache_data: the key is the function and its arguments, those whose
\* name starts with an underscore (_panel_data) left out; a hit returns the
\* stored value, a miss runs the function and stores what it returned
st_cache_data(fn, hashed_args, computed) ==
    LET key == <<fn, hashed_args>>
    IN IF key \in DOMAIN cache
       THEN /\ ret' = [fn |-> fn, args |-> hashed_args, val |-> cache[key]]
            /\ UNCHANGED <<cache, report, session>>
       ELSE /\ Cardinality(DOMAIN cache) < MaxCache
            /\ ret' = [fn |-> fn, args |-> hashed_args, val |-> computed]
            /\ cache' = [k \in DOMAIN cache \cup {key} |->
                            IF k = key THEN computed ELSE cache[k]]

\* views/still_alive.py, views/manager.py: the resolver on the session's panel
CachedResolve(fc) ==
    /\ st_cache_data("get_true_defect_coordinates", <<fc>>,
                     get_true_defect_coordinates(panel, fc))
    /\ UNCHANGED <<uploaded_files, panel, panel_rows, panel_cols, uuid_counter, report, session>>

\* analysis/root_cause.py: no filter context is passed
CachedYieldKillers ==
    /\ \E top \in IF PanelBool(panel) /\ YieldKillerRows(panel, NoContext) # <<>>
                  THEN TopKillerChoices(YieldKillerRows(panel, NoContext))
                  ELSE {0} :
          st_cache_data("calculate_yield_killers",
                        <<panel_rows, panel_cols, NoContext>>,
                        calculate_yield_killers(panel, panel_rows, panel_cols,
                                                NoContext, top))
    /\ UNCHANGED <<uploaded_files, panel, panel_rows, panel_cols, uuid_counter, report, session>>

CachedCrossSection(slice_axis, slice_index) ==
    /\ st_cache_data("get_cross_section_matrix",
                     <<slice_axis, slice_index, panel_rows, panel_cols, NoContext>>,
                     get_cross_section_matrix(panel, slice_axis, slice_index,
                                              panel_rows, panel_cols, NoContext))
    /\ UNCHANGED <<uploaded_files, panel, panel_rows, panel_cols, uuid_counter, report, session>>

\* analysis/stress.py: panel_uid = self.store.layer_data.id is passed
CachedStressMap(fc) ==
    /\ st_cache_data("aggregate_stress_data",
                     <<fc, panel_rows, panel_cols, panel.id>>,
                     aggregate_stress_data(panel, fc, panel_rows, panel_cols))
    /\ UNCHANGED <<uploaded_files, panel, panel_rows, panel_cols, uuid_counter, report, session>>

\* views/multi_layer.py: panel_uid = store.layer_data.id is passed
CachedMultiLayer ==
    /\ st_cache_data("prepare_multi_layer_data", <<panel.id>>,
                     prepare_multi_layer_data(panel))
    /\ UNCHANGED <<uploaded_files, panel, panel_rows, panel_cols, uuid_counter, report, session>>

\* uploads of one file with one defect
MemoFileLists ==
    { <<File(TRUE, 1, sd, TRUE, AllColumns, <<RawRow(x, 0, Text(CU10))>>)>> :
        x \in {0, 1}, sd \in Sides }

MemoContexts ==
    { NoContext, FilterContext(None, None, None, "All", Some({2}), None) }

\* the views run on a loaded panel
Loaded == Idle /\ uuid_counter > 1

\* panels are loaded one after the other into the same session and the views
\* call the memoized aggregations on the panel of the moment
NextMemo ==
    \/ /\ Idle
       /\ \E files \in MemoFileLists :
             files # uploaded_files /\ LoadData(files, <<>>)
    \/ Loaded /\ \E fc \in MemoContexts : CachedResolve(fc)
    \/ Loaded /\ CachedYieldKillers
    \/ Loaded /\ \E ax \in {"Y", "X"} : CachedCrossSection(ax, 0)
    \/ Loaded /\ \E fc \in MemoContexts : CachedStressMap(fc)
    \/ Loaded /\ CachedMultiLayer
    \/ Return

SpecMemo == Init /\ [][NextMemo]_vars

\* what the aggregation named fn returns for the hashed arguments when it
\* runs on the panel p
Recomputed(fn, args, p) ==
    CASE fn = "get_true_defect_coordinates" ->
            { get_true_defect_coordinates(p, args[1]) }
      [] fn = "calculate_yield_killers" ->
            { calculate_yield_killers(p, args[1], args[2], args[3], top) :
                top \in IF PanelBool(p) /\ YieldKillerRows(p, args[3]) # <<>>
                        THEN TopKillerChoices(YieldKillerRows(p, args[3]))
                        ELSE {0} }
      [] fn = "get_cross_section_matrix" ->
            { get_cross_section_matrix(p, args[1], args[2], args[3], args[4],
                                       args[5]) }
      [] fn = "aggregate_stress_data" ->
            { aggregate_stress_data(p, args[1], args[2], args[3]) }
      [] fn = "prepare_multi_layer_data" ->
            { prepare_multi_layer_data(p) }

\* C7: over any sequence of panel loads and aggregation calls, a memoized
\* aggregation called with the panel of the session and filter parameters
\* returns the result computed from that panel and those parameters; a result
\* stored for an earlier panel is never returned for a different one.
C7_MemoKeyedOnPanel ==
    ret # NoCall => ret.val \in Recomputed(ret.fn, ret.args, panel)

\* the two aggregations that are handed the panel's id return the result of
\* the panel they are called with
C7_KeyedByPanelUid ==
    ret.fn \in {"aggregate_stress_data", "prepare_multi_layer_data"} =>
        ret.val \in Recomputed(ret.fn, ret.args, panel)

\* a second panel has been loaded and the resolver has been called on it
C7_SecondPanelCalled ==
    /\ uuid_counter = 3
    /\ ret.fn = "get_true_defect_coordinates"

----------------------------------------------------------------------------
(* The resolver's summary *)

\* the True-Defect records that pass the filters and lie at the cell u
HitsAt(p, fc, u) ==
    { rk \in TrueDefects(p) :
        /\ PassesResolverFilters(p, rk, fc)
        /\ MirroredX(p, rk) = u[1] /\ RecY(p, rk) = u[2] }

\* "L{n}: {count}" for the layers of the records hits, ascending, joined by ", "
SummaryOfHits(p, hits) ==
    LET ls == SortedSeq({ RecLayer(p, rk) : rk \in hits })
    IN JoinStr([i \in 1..Len(ls) |->
                   <<"L">> \o IntToStr(ls[i]) \o <<":", " ">>
                   \o IntToStr(Cardinality({ rk \in hits : RecLayer(p, rk) = ls[i] }))],
               <<",", " ">>)

\* C11: for every key of the resolver's result, defect_summary lists exactly
\* the layers that have a True-Defect record at that cell, each once, in
\* ascending order, as "L{n}: {count}" joined by ", ", the count being the
\* number of True-Defect records of the layer at the cell, and the first
\* listed layer is first_killer_layer.
C11_Summary ==
    ret.fn = "get_true_defect_coordinates" =>
        \A u \in DOMAIN ret.val :
            LET hits == HitsAt(panel, ret.args[1], u)
            IN /\ ret.val[u].defect_summary = SummaryOfHits(panel, hits)
               /\ hits # {} =>
                     ret.val[u].first_killer_layer =
                         MinOf({ RecLayer(panel, rk) : rk \in hits })

\* the same statement for the panels whose frames carry the PHYSICAL_X column
C11_OnUploadedFiles ==
    (\A i \in DOMAIN panel.layers : panel.layers[i].raw_df.hasPX) => C11_Summary

\* a panel loaded from files has been resolved and a summary lists two layers
C11_TwoLayersListed ==
    /\ ret.fn = "get_true_defect_coordinates"
    /\ \A i \in DOMAIN panel.layers : panel.layers[i].raw_df.hasPX
    /\ \E u \in DOMAIN ret.val :
          ret.val[u].defect_summary = <<"L","1",":"," ","1",","," ","L","2",":"," ","1">>

----------------------------------------------------------------------------
(* The store read directly *)

CombinedView(filter_func) ==
    /\ Idle
    /\ ret' = [fn |-> "get_combined_dataframe", args |-> <<filter_func>>,
               val |-> get_combined_dataframe(panel, filter_func)]
    /\ UNCHANGED <<uploaded_files, panel, panel_rows, panel_cols, uuid_counter, cache,
                 report, session>>

AllLayerNums ==
    /\ Idle
    /\ ret' = [fn |-> "get_all_layer_nums", args |-> <<>>,
               val |-> get_all_layer_nums(panel)]
    /\ UNCHANGED <<uploaded_files, panel, panel_rows, panel_cols, uuid_counter, cache,
                 report, session>>

GetLayer(layer_num, side) ==
    /\ Idle
    /\ ret' = [fn |-> "get_layer", args |-> <<layer_num, side>>,
               val |-> get_layer(panel, layer_num, side)]
    /\ UNCHANGED <<uploaded_files, panel, panel_rows, panel_cols, uuid_counter, cache,
                 report, session>>

\* the store is built as in Next and then read
NextStore ==
    \/ /\ Building /\ ~PanelBool(panel)
       /\ \E files \in FileLists : LoadData(files, <<>>)
    \/ /\ Building /\ ~PanelBool(panel)
       /\ \E sample \in Samples(panel_rows, panel_cols) : LoadData(<<>>, sample)
    \/ /\ Building
       /\ \E n \in LayerNums, sd \in Sides,
             rs \in {<<>>} \cup { <<r>> : r \in DirectRows } : AddLayer(n, sd, rs)
    \/ Idle /\ \E f \in {"None", "true_defect_filter"} : CombinedView(f)
    \/ AllLayerNums
    \/ Idle /\ \E n \in LayerNums, sd \in Sides : GetLayer(n, sd)
    \/ Return

SpecStore == Init /\ [][NextStore]_vars

\* the fields of a stored record and the (layer_number, side) that owns it
OwnedRecord(p, rk) ==
    [x |-> RecX(p, rk), y |-> RecY(p, rk), code |-> RecCode(p, rk),
     layer_number |-> RecLayer(p, rk), side |-> RecSide(p, rk)]

\* the same fields of a row of the combined view
ViewedRecord(row) ==
    [x |-> row.UNIT_INDEX_X, y |-> row.UNIT_INDEX_Y, code |-> row.Verification,
     layer_number |-> row.LAYER_NUM, side |-> row.SIDE]

\* C12: get_combined_dataframe without a filter returns exactly the records
\* of all stored layers, each tagged with the layer number and side of its
\* layer; with a filter, the records of each layer the filter keeps; an empty
\* sequence for a store without records; get_all_layer_nums returns the
\* stored layer numbers in ascending order and get_layer not-found for an
\* absent (number, side).
C12_CombinedView ==
    /\ ret.fn = "get_combined_dataframe" =>
          LET kept == IF ret.args[1] = "None" THEN StoreRecords(panel)
                      ELSE { rk \in StoreRecords(panel) :
                               RecCode(panel, rk) \notin SAFE_VERIFICATION_VALUES_UPPER }
              rows == ret.val.rows
          IN /\ Len(rows) = Cardinality(kept)
             /\ \A i \in DOMAIN rows :
                   Cardinality({ j \in DOMAIN rows :
                                   ViewedRecord(rows[j]) = ViewedRecord(rows[i]) })
                   = Cardinality({ rk \in kept :
                                   OwnedRecord(panel, rk) = ViewedRecord(rows[i]) })
             /\ kept = {} => rows = <<>>
    /\ ret.fn = "get_all_layer_nums" =>
          /\ Range(ret.val) = { panel.layers[i].layer_num : i \in DOMAIN panel.layers }
          /\ \A i, j \in DOMAIN ret.val : i < j => ret.val[i] < ret.val[j]
    /\ ret.fn = "get_layer" =>
          IF \E i \in DOMAIN panel.layers :
                /\ panel.layers[i].layer_num = ret.args[1]
                /\ panel.layers[i].side = ret.args[2]
          THEN /\ ret.val # <<>>
               /\ ret.val[1].layer_num = ret.args[1] /\ ret.val[1].side = ret.args[2]
          ELSE ret.val = <<>>

\* the unfiltered view of a store that holds a Front and a Back layer with a
\* record each has been taken
C12_Witness ==
    /\ ret.fn = "get_combined_dataframe" /\ ret.args[1] = "None"
    /\ Len(ret.val.rows) = 2
    /\ ret.val.rows[1].SIDE # ret.val.rows[2].SIDE

----------------------------------------------------------------------------
(* The transformer's unit origin against the layout calculator *)

\* C13: for every record with non-negative unit indices, inside the grid or
\* beyond it, the unit origin (base_x, base_y) of the transformer is
\* LayoutParams.get_unit_origin of the same indices and layout.
C13_BaseIsUnitOrigin ==
    /\ ret.fn = "_add_plotting_coordinates"
    /\ ret.args[1] >= 0 /\ ret.args[2] >= 0
    => LET origin == get_unit_origin(PanelLayout(panel_cols, panel_rows),
                                     ret.args[1], ret.args[2])
       IN /\ ret.val.base.base_x = origin.final_x
          /\ ret.val.base.base_y = origin.final_y

\* the same statement for the records inside the 2*cols x 2*rows grid
C13_InsideGrid ==
    /\ ret.fn = "_add_plotting_coordinates"
    /\ ret.args[1] < 2 * panel_cols /\ ret.args[2] < 2 * panel_rows
    => C13_BaseIsUnitOrigin

\* a record of the right half inside the grid has been transformed
C13_RightHalfInside ==
    /\ ret.fn = "_add_plotting_coordinates"
    /\ ret.args[1] = 2 * panel_cols - 1 /\ panel_cols > 1
    /\ ret.args[2] = 0

----------------------------------------------------------------------------
(* BuildUpLayer._add_plotting_coordinates in full, on a frame                *)
(*   [has_coords, rows]                                                      *)
(* has_coords: the frame has the columns X_COORDINATES and Y_COORDINATES (in *)
(* micrometres); a cell of these is a number, NaN (a blank) or a text, and   *)
(* NaN throughout in a frame without the columns.                            *)
(* Plot coordinates are kept as numerators over Scale, <<>> being NaN.       *)

Scale == 10 * JitterSteps

NumCell(v) == [kind |-> "num", v |-> v]
NaNCell == [kind |-> "nan", v |-> 0]
TextCell == [kind |-> "str", v |-> 0]

\* pd.api.types.is_numeric_dtype of a column: numbers and blanks make a float
\* column, a text makes it an object column
is_numeric_dtype(rows, column) ==
    \A i \in DOMAIN rows : rows[i][column].kind # "str"

\* use_spatial_coords: both columns exist and X / 1000.0, Y / 1000.0 are
\* numeric; the division of an object column with a text raises and is caught
use_spatial_coords(df) ==
    /\ df.has_coords
    /\ is_numeric_dtype(df.rows, "X_COORDINATES")
    /\ is_numeric_dtype(df.rows, "Y_COORDINATES")

\* a jitter that starts at the cell's edge
jitter_from_edge(k, unit) == k * unit * 8

\* rand * unit * 0.8 + unit * 0.1 for rand = k / JitterSteps, over Scale
jitter(k, unit) == (k * unit * 8) + (unit * JitterSteps)

\* cell / 1000.0 + margin + gap_shift, over Scale; NaN stays NaN
spatial_plot(cell, margin, shift) ==
    IF cell.kind = "num" THEN <<((cell.v \div 1000) + margin + shift) * Scale>>
    ELSE <<>>

\* the columns _add_plotting_coordinates writes on row i of the frame; rand_x
\* and rand_y are the draws of np.random.rand(len(df))
PlottedRow(df, i, side, layout, rand_x, rand_y) ==
    LET r == df.rows[i]
        quadrant == QuadrantOf(r.UNIT_INDEX_X, r.UNIT_INDEX_Y, layout)
        base == base_origin(r.UNIT_INDEX_X, r.UNIT_INDEX_Y, layout)
        shift == gap_shift(quadrant, layout)
        plot_x == IF use_spatial_coords(df)
                  THEN spatial_plot(r.X_COORDINATES, layout.margin_x, shift.gap_shift_x)
                  ELSE <<(base.base_x * Scale) + jitter(rand_x[i], unit_width(layout))>>
        plot_y == IF use_spatial_coords(df)
                  THEN spatial_plot(r.Y_COORDINATES, layout.margin_y, shift.gap_shift_y)
                  ELSE <<(base.base_y * Scale) + jitter(rand_y[i], unit_height(layout))>>
        flipped == PhysicalXFlipped(r.UNIT_INDEX_X, side, layout)
        base_flip == base_origin(flipped, r.UNIT_INDEX_Y, layout)
    IN [UNIT_INDEX_X |-> r.UNIT_INDEX_X,
        UNIT_INDEX_Y |-> r.UNIT_INDEX_Y,
        X_COORDINATES |-> r.X_COORDINATES,
        Y_COORDINATES |-> r.Y_COORDINATES,
        QUADRANT |-> quadrant,
        plot_x |-> plot_x,
        plot_y |-> plot_y,
        PHYSICAL_X_RAW |-> r.UNIT_INDEX_X,
        physical_plot_x_raw |-> plot_x,
        PHYSICAL_X_FLIPPED |-> flipped,
        physical_plot_x_flipped |->
            IF side = "B"
            THEN <<(base_flip.base_x * Scale) + (unit_width(layout) * (Scale \div 2))>>
            ELSE plot_x]

\* _add_plotting_coordinates: df = self.raw_df is the frame object the
\* constructor was given, and the columns are assigned on it; an empty frame
\* is returned as it is
add_plotting_coordinates(df, side, layout, rand_x, rand_y) ==
    IF df.rows = <<>> THEN df
    ELSE [has_coords |-> df.has_coords,
          rows |-> [i \in 1..Len(df.rows) |->
                       PlottedRow(df, i, side, layout, rand_x, rand_y)]]


\* the frames handed to the constructor
PlainRow(x, y, cx, cy) ==
    [UNIT_INDEX_X |-> x, UNIT_INDEX_Y |-> y, X_COORDINATES |-> cx, Y_COORDINATES |-> cy]

CoordCells ==
    { <<NumCell(2000), NumCell(5000)>>, <<NaNCell, NaNCell>>, <<TextCell, NumCell(5000)>> }

RowsWithCoords ==
    { PlainRow(x, y, c[1], c[2]) : x \in {0, 1, MaxIdx}, y \in {0, 1}, c \in CoordCells }

RowsWithoutCoords ==
    { PlainRow(x, y, NaNCell, NaNCell) : x \in {0, 1, MaxIdx}, y \in {0, 1} }

TransformFrames ==
    { [has_coords |-> h, rows |-> <<>>] : h \in BOOLEAN }
    \cup { [has_coords |-> TRUE, rows |-> rs] :
             rs \in UNION { [1..n -> RowsWithCoords] : n \in 1..MaxLen } }
    \cup { [has_coords |-> FALSE, rows |-> rs] :
             rs \in UNION { [1..n -> RowsWithoutCoords] : n \in 1..MaxLen } }

Draws(n) == [1..n -> 0..(JitterSteps - 1)]

\* layer = BuildUpLayer(1, side, df, layout): what the caller holds afterwards
\* is the layer and the frame df it passed, which is the object layer.raw_df
Construct(df, side) ==
    /\ \E rand_x \in IF use_spatial_coords(df) THEN {<<>>} ELSE Draws(Len(df.rows)),
          rand_y \in IF use_spatial_coords(df) THEN {<<>>} ELSE Draws(Len(df.rows)) :
          LET raw_df == add_plotting_coordinates(df, side,
                            PanelLayout(panel_cols, panel_rows), rand_x, rand_y)
          IN ret' = [fn |-> "BuildUpLayer", args |-> <<df, side>>,
                     val |-> [layer |-> [layer_num |-> 1, side |-> side,
                                         raw_df |-> raw_df],
                              df |-> raw_df]]
    /\ UNCHANGED <<uploaded_files, panel, panel_rows, panel_cols, uuid_counter, cache,
                 report, session>>

NextTransform ==
    \/ Idle /\ \E df \in TransformFrames, side \in Sides : Construct(df, side)
    \/ Return

SpecTransform == Init /\ [][NextTransform]_vars


\* the record carries numeric absolute coordinates
CarriesAbsolute(df, i) ==
    /\ df.has_coords
    /\ df.rows[i].X_COORDINATES.kind = "num"
    /\ df.rows[i].Y_COORDINATES.kind = "num"

\* the coordinate lies strictly between origin and origin + unit
StrictlyInside(plot, origin, unit) ==
    /\ plot # <<>>
    /\ origin * Scale < plot[1]
    /\ plot[1] < (origin + unit) * Scale

\* C14: a record that carries numeric absolute_x and absolute_y is placed at
\* margin + absolute coordinate + quadrant gap shift (the mid gap on x iff it
\* is in Q2/Q4, on y iff in Q3/Q4); every other record is placed at its unit
\* origin plus a jitter, whatever the other records of the layer carry.
C14_PlacementPerRecord ==
    ret.fn = "BuildUpLayer" =>
        LET df == ret.args[1]
            layout == PanelLayout(panel_cols, panel_rows)
        IN \A i \in DOMAIN df.rows :
              LET r == df.rows[i]
                  out == ret.val.layer.raw_df.rows[i]
                  origin == base_origin(r.UNIT_INDEX_X, r.UNIT_INDEX_Y, layout)
              IN IF CarriesAbsolute(df, i)
                 THEN /\ out.plot_x =
                            <<((r.X_COORDINATES.v \div 1000) + layout.margin_x
                               + (IF r.UNIT_INDEX_X >= panel_cols
                                  THEN layout.gap_mid ELSE 0)) * Scale>>
                      /\ out.plot_y =
                            <<((r.Y_COORDINATES.v \div 1000) + layout.margin_y
                               + (IF r.UNIT_INDEX_Y >= panel_rows
                                  THEN layout.gap_mid ELSE 0)) * Scale>>
                 ELSE /\ StrictlyInside(out.plot_x, origin.base_x, unit_width(layout))
                      /\ StrictlyInside(out.plot_y, origin.base_y, unit_height(layout))

\* the same statement for the frames in which every record carries numeric
\* absolute coordinates and the frames that have no coordinate columns
C14_UniformFrames ==
    /\ ret.fn = "BuildUpLayer"
    /\ LET df == ret.args[1]
       IN \/ ~df.has_coords
          \/ \A i \in DOMAIN df.rows : CarriesAbsolute(df, i)
    => C14_PlacementPerRecord

\* a layer has been built from a frame of two records with numeric absolute
\* coordinates, one of them in a right quadrant
C14_SpatialFrameBuilt ==
    /\ ret.fn = "BuildUpLayer"
    /\ Len(ret.args[1].rows) = 2
    /\ \A i \in DOMAIN ret.args[1].rows : CarriesAbsolute(ret.args[1], i)
    /\ ret.args[1].rows[1].UNIT_INDEX_X >= panel_cols
    /\ ret.args[1].rows[2].UNIT_INDEX_X < panel_cols


\* C15: constructing a BuildUpLayer from a frame leaves the caller's frame as
\* it was, no column added and no value changed.
C15_InputUnchanged ==
    ret.fn = "BuildUpLayer" => ret.val.df = ret.args[1]

\* an empty frame is left as it was
C15_EmptyUnchanged ==
    ret.fn = "BuildUpLayer" /\ ret.args[1].rows = <<>> => ret.val.df = ret.args[1]

\* the frame is placed by index: it has no coordinate columns, or a text in one
PlacedByIndex(df) ==
    \/ ~df.has_coords
    \/ \E i \in DOMAIN df.rows :
          df.rows[i].X_COORDINATES.kind = "str" \/ df.rows[i].Y_COORDINATES.kind = "str"

----------------------------------------------------------------------------
(* The tooltips of the grid aggregator *)

HoverTypes == { <<"A">>, <<"B">>, <<"C">>, <<"D">> }

HoverRecords ==
    { [UNIT_INDEX_X |-> c, UNIT_INDEX_Y |-> c, DEFECT_TYPE |-> t] :
        c \in {0, 1}, t \in HoverTypes }

HoverFrames == UNION { [1..n -> HoverRecords] : n \in 1..MaxHover }

NextHover ==
    \/ Idle /\ \E df \in HoverFrames : AggregateFromDf(df)
    \/ Return

SpecHover == Init /\ [][NextHover]_vars

\* the types of the cell (y, x) by descending count, the type seen first in
\* the frame ahead of the others with the same count
FirstSeenRanking(df, y, x) ==
    LET at == { k \in DOMAIN df : df[k].UNIT_INDEX_Y = y /\ df[k].UNIT_INDEX_X = x }
        types == { df[k].DEFECT_TYPE : k \in at }
        Count(t) == Cardinality({ k \in at : df[k].DEFECT_TYPE = t })
        First(t) == CHOOSE k \in at :
                       /\ df[k].DEFECT_TYPE = t
                       /\ \A m \in at : df[m].DEFECT_TYPE = t => k <= m
        Before(a, b) == Count(a) > Count(b)
                        \/ (Count(a) = Count(b) /\ First(a) < First(b))
    IN [i \in 1..Cardinality(types) |->
           CHOOSE t \in types :
               Cardinality({ a \in types : Before(a, t) }) = i - 1]

\* C17: the summary of every non-empty cell lists the at most three types
\* with the highest counts of the cell in descending order of count, and
\* among types of equal count the one seen first in the input first.
C17_TopThreeFirstSeen ==
    ret.fn = "aggregate_stress_data_from_df" =>
        LET df == ret.args[1]
        IN \A k \in DOMAIN df :
              LET y == df[k].UNIT_INDEX_Y
                  x == df[k].UNIT_INDEX_X
              IN /\ "DEFECT_TYPE" \in DOMAIN df[k]
                 /\ y \in 0..(2 * ret.args[2] - 1) /\ x \in 0..(2 * ret.args[3] - 1)
                 => ret.val.hover_text[y + 1][x + 1] =
                        TooltipText(df, y, x, FirstSeenRanking(df, y, x))

\* the same statement for the frames in which no two types of a cell have
\* the same count
C17_WithoutTies ==
    /\ ret.fn = "aggregate_stress_data_from_df"
    /\ LET df == ret.args[1]
       IN \A k, m \in DOMAIN df :
             /\ df[k].UNIT_INDEX_Y = df[m].UNIT_INDEX_Y
             /\ df[k].UNIT_INDEX_X = df[m].UNIT_INDEX_X
             /\ df[k].DEFECT_TYPE # df[m].DEFECT_TYPE
             => Cardinality({ i \in DOMAIN df : df[i] = df[k] })
                # Cardinality({ i \in DOMAIN df : df[i] = df[m] })
    => C17_TopThreeFirstSeen

\* a cell with two types of different counts has been summarised
C17_TwoTypesRanked ==
    /\ ret.fn = "aggregate_stress_data_from_df"
    /\ ret.val.hover_text[1][1] =
          <<"<","b",">","T","o","t","a","l",":"," ","3","<","/","b",">",
            "<","b","r",">","B",":"," ","2","<","b","r",">","A",":"," ","1">>


----------------------------------------------------------------------------
(* The yield-killer metrics over stores whose layers hold several records *)

\* frames of up to MaxRows records: defects of two units and a false alarm
KillerRecords ==
    { DirectRow(0, 0, CU10), DirectRow(1, 0, CU10), DirectRow(0, 0, <<"N">>) }

KillerFrames ==
    UNION { [1..n -> KillerRecords] : n \in 0..MaxRows }

NextKillers ==
    \/ /\ Building
       /\ \E n \in LayerNums, sd \in Sides, rs \in KillerFrames : AddLayer(n, sd, rs)
    \/ Idle /\ \E fc \in AnalysisContexts : YieldKillers(fc)
    \/ Return

SpecKillers == Init /\ [][NextKillers]_vars

\* the True-Defect records of the store a filter context selects: a list
\* that is absent or empty restricts nothing
SelectedTrueDefects(fc) ==
    { rk \in TrueDefects(panel) :
        \/ fc.is_none
        \/ /\ (~fc.selected_layers.isNone /\ fc.selected_layers.vals # {}) =>
                 RecLayer(panel, rk) \in fc.selected_layers.vals
           /\ (~fc.selected_sides.isNone /\ fc.selected_sides.vals # {}) =>
                 RecSide(panel, rk) \in fc.selected_sides.vals
           /\ (~fc.verification_filter.isNone /\ fc.verification_filter.vals # {}) =>
                 RecCode(panel, rk) \in fc.verification_filter.vals
           /\ fc.quadrant_filter # "All" =>
                 QuadrantOf(RecX(panel, rk), RecY(panel, rk),
                            panel.layers[rk[1]].layout) = fc.quadrant_filter }

\* the number of selected True-Defect records of a layer, both sides
OfLayer(fc, n) ==
    Cardinality({ rk \in SelectedTrueDefects(fc) : RecLayer(panel, rk) = n })

\* C18: whenever calculate_yield_killers returns a result, the reported worst
\* layer is a layer whose True-Defect count (both sides, after the filter
\* context) is at least that of every other layer, and top_killer_count is
\* that layer's True-Defect count.
C18_WorstLayer ==
    ret.fn = "calculate_yield_killers" /\ ~Raised(ret.val) /\ ~ret.val.absent =>
        \E n \in LayerNums :
            /\ ret.val.top_killer_layer = <<"L","a","y","e","r"," ">> \o IntToStr(n)
            /\ \A m \in LayerNums : OfLayer(ret.args[1], m) <= OfLayer(ret.args[1], n)
            /\ ret.val.top_killer_count = OfLayer(ret.args[1], n)

\* two layers with True-Defects, one with more of them than the other, and
\* the metrics computed over both
C18_Witness ==
    /\ ret.fn = "calculate_yield_killers" /\ ~Raised(ret.val) /\ ~ret.val.absent
    /\ \E n \in LayerNums, m \in LayerNums :
          /\ 0 < OfLayer(ret.args[1], m)
          /\ OfLayer(ret.args[1], m) < OfLayer(ret.args[1], n)
          /\ ret.val.top_killer_count = OfLayer(ret.args[1], n)


\* the number of selected True-Defect records of a unit, all layers and both
\* sides together
OfUnit(selected, x, y) ==
    Cardinality({ rk \in selected : RecX(panel, rk) = x /\ RecY(panel, rk) = y })

\* C19: whenever calculate_yield_killers returns a result, the reported worst
\* unit is a (unit_index_x, unit_index_y) pair whose True-Defect count, summed
\* over all layers and both sides of the selected records, is at least that
\* of every other pair, and worst_unit_count is that sum.
C19_WorstUnit ==
    ret.fn = "calculate_yield_killers" /\ ~Raised(ret.val) /\ ~ret.val.absent =>
        LET selected == SelectedTrueDefects(ret.args[1])
            units == { <<RecX(panel, rk), RecY(panel, rk)>> : rk \in selected }
        IN \E u \in units :
              /\ ret.val.worst_unit = <<"X", ":">> \o IntToStr(u[1])
                                      \o <<",", " ", "Y", ":">> \o IntToStr(u[2])
              /\ \A v \in units :
                    OfUnit(selected, v[1], v[2]) <= OfUnit(selected, u[1], u[2])
              /\ ret.val.worst_unit_count = OfUnit(selected, u[1], u[2])

\* two units with True-Defects, the later one in key order with more of them
\* and spread over both layers, and the metrics computed over both
C19_Witness ==
    LET selected == SelectedTrueDefects(ret.args[1])
    IN /\ ret.fn = "calculate_yield_killers" /\ ~Raised(ret.val) /\ ~ret.val.absent
       /\ 0 < OfUnit(selected, 0, 0)
       /\ OfUnit(selected, 0, 0) < OfUnit(selected, 1, 0)
       /\ \A n \in LayerNums :
             \E rk \in selected : RecLayer(panel, rk) = n /\ RecX(panel, rk) = 1
       /\ ret.val.worst_unit_count = OfUnit(selected, 1, 0)

\* the number of selected True-Defect records of a side
OfSide(fc, sd) ==
    Cardinality({ rk \in SelectedTrueDefects(fc) : RecSide(panel, rk) = sd })

\* C20: with f and b the numbers of Front-side and Back-side True-Defect
\* records, side_bias is "Front Side" exactly when f > b, "Back Side" exactly
\* when b > f and "Balanced" exactly when f = b, and side_bias_diff is the
\* absolute difference of f and b.
C20_SideBias ==
    ret.fn = "calculate_yield_killers" /\ ~Raised(ret.val) /\ ~ret.val.absent =>
        LET f == OfSide(ret.args[1], "F")
            b == OfSide(ret.args[1], "B")
        IN /\ ret.val.side_bias = "Front Side" <=> f > b
           /\ ret.val.side_bias = "Back Side" <=> b > f
           /\ ret.val.side_bias = "Balanced" <=> f = b
           /\ ret.val.side_bias_diff = IF f >= b THEN f - b ELSE b - f

\* a store with True-Defects on both sides and more of them on the Back
\* side, and the metrics computed over it
C20_Witness ==
    /\ ret.fn = "calculate_yield_killers" /\ ~Raised(ret.val) /\ ~ret.val.absent
    /\ 0 < OfSide(ret.args[1], "F")
    /\ OfSide(ret.args[1], "F") < OfSide(ret.args[1], "B")
    /\ ret.val.side_bias = "Back Side"
    /\ ret.val.side_bias_diff = 1


----------------------------------------------------------------------------
(* The entry points given zero records *)

\* sheets with a header and no row
EmptyFiles == { f \in Files : f.rows = <<>> }

EmptyFileLists == UNION { [1..n -> EmptyFiles] : n \in 1..MaxFiles }

NextEmpty ==
    \/ /\ Building /\ ~PanelBool(panel)
       /\ \E files \in EmptyFileLists : LoadData(files, <<>>)
    \/ /\ Building
       /\ \E n \in LayerNums, sd \in Sides : AddLayer(n, sd, <<>>)
    \/ Idle /\ \E f \in {"None", "true_defect_filter"} : CombinedView(f)
    \/ Idle /\ \E fc \in AnalysisContexts : StressMap(fc)
    \/ Idle /\ \E ax \in {"Y", "X"}, i \in Idx, fc \in AnalysisContexts :
                  CrossSection(ax, i, fc)
    \/ Idle /\ \E fc \in AnalysisContexts : YieldKillers(fc)
    \/ Idle /\ \E fc \in ResolverContexts : Resolve(fc)
    \/ Return

SpecEmpty == Init /\ [][NextEmpty]_vars

\* each entry point returned its empty shape
EmptyShapes ==
    /\ ret.fn = "get_combined_dataframe" => ret.val.rows = <<>>
    /\ ret.fn = "aggregate_stress_data" =>
          /\ ret.val.grid_counts = Zeros(2 * panel_rows, 2 * panel_cols)
          /\ ret.val.total_defects = 0
          /\ ret.val.max_count = 0
    /\ ret.fn = "get_cross_section_matrix" =>
          /\ ~Raised(ret.val)
          /\ panel.layers = <<>> =>
                /\ ret.val.matrix = Zeros(0, 0)
                /\ ret.val.layer_labels = <<>>
                /\ ret.val.axis_labels = <<>>
    /\ ret.fn = "calculate_yield_killers" =>
          ~Raised(ret.val) /\ ret.val.absent
    /\ ret.fn = "get_true_defect_coordinates" => ret.val = EmptyDict

\* C21: given zero records (an empty store, or a store whose layers are all
\* empty), no aggregation entry point raises and each returns its empty
\* shape: get_combined_dataframe an empty sequence, aggregate_stress_data an
\* all-zero (2*rows x 2*cols) grid with total 0 and maximum 0,
\* get_cross_section_matrix a (0,0) matrix with empty label lists when the
\* store has zero layers, calculate_yield_killers absent,
\* get_true_defect_coordinates the empty map.
C21_EmptyInputSafe == StoreRecords(panel) = {} => EmptyShapes

\* the same for a store without layers, and for a store of empty layers when
\* the context selects no layer and no side
C21_WithoutSelection ==
    /\ StoreRecords(panel) = {}
    /\ ret # NoCall
    /\ ret.fn \in {"get_cross_section_matrix", "calculate_yield_killers"} =>
          LET fc == ret.args[Len(ret.args)]
          IN \/ panel.layers = <<>>
             \/ fc.is_none
             \/ ~Truthy(fc.selected_layers) /\ ~Truthy(fc.selected_sides)
    => EmptyShapes

\* the yield-killer metrics asked of a store whose only layer is empty, with
\* a context that selects a layer
C21_SelectionOnEmptyLayers ==
    /\ ret.fn = "calculate_yield_killers"
    /\ panel.layers # <<>>
    /\ StoreRecords(panel) = {}
    /\ ~ret.args[1].is_none
    /\ Truthy(ret.args[1].selected_layers)


----------------------------------------------------------------------------
(* Records outside the grid *)

\* the selected True-Defect records whose unit lies inside the grid
SelectedInGrid(fc) == { rk \in SelectedTrueDefects(fc) : InGrid(rk) }

\* a unit index pair inside [0, 2*cols) x [0, 2*rows)
UnitInGrid(x, y) ==
    /\ 0 <= x /\ x < 2 * panel_cols
    /\ 0 <= y /\ y < 2 * panel_rows

\* the grid aggregator counts the records inside the grid and no other
GridAbsorbs ==
    ret.fn = "aggregate_stress_data" =>
        /\ ~Raised(ret.val)
        /\ ret.val.total_defects = Cardinality(SelectedInGrid(ret.args[1]))

\* a slice counts the records inside the grid and no other
SliceAbsorbs ==
    ret.fn = "get_cross_section_matrix" =>
        /\ ~Raised(ret.val)
        /\ MatrixSum(ret.val.matrix) =
              Cardinality({ rk \in SelectedInGrid(ret.args[3]) :
                  IF ret.args[1] = "Y" THEN RecY(panel, rk) = ret.args[2]
                  ELSE RecX(panel, rk) = ret.args[2] })

\* the yield-killer metrics are those of the records inside the grid
KillersAbsorb ==
    ret.fn = "calculate_yield_killers" /\ ~Raised(ret.val) =>
        LET inside == SelectedInGrid(ret.args[1])
        IN /\ ret.val.absent <=> inside = {}
           /\ ~ret.val.absent =>
                 \E rk \in inside :
                    /\ ret.val.worst_unit =
                          <<"X", ":">> \o IntToStr(RecX(panel, rk))
                          \o <<",", " ", "Y", ":">> \o IntToStr(RecY(panel, rk))
                    /\ ret.val.worst_unit_count =
                          OfUnit(inside, RecX(panel, rk), RecY(panel, rk))

\* every key of the resolver lies inside the grid
ResolverAbsorbs ==
    ret.fn = "get_true_defect_coordinates" =>
        \A u \in DOMAIN ret.val : UnitInGrid(u[1], u[2])

\* C22: a record whose unit index lies outside [0, 2*cols) x [0, 2*rows)
\* contributes to no output of the grid aggregator, the cross-section
\* matrix, the yield-killer metrics or the resolver (every resolver key and
\* the reported worst unit lie inside the grid), and never makes an
\* aggregation raise.
C22_BoundsAbsorbed ==
    (\E rk \in StoreRecords(panel) : ~InGrid(rk)) =>
        /\ GridAbsorbs
        /\ SliceAbsorbs
        /\ KillersAbsorb
        /\ ResolverAbsorbs
        /\ ret.fn = "calculate_yield_killers" => ~Raised(ret.val)

\* the same of the grid aggregator alone, and of the slices taken inside the
\* grid
C22_GridAndInnerSlices ==
    (\E rk \in StoreRecords(panel) : ~InGrid(rk)) =>
        /\ GridAbsorbs
        /\ (ret.fn = "get_cross_section_matrix"
              /\ ret.args[2] < (IF ret.args[1] = "Y" THEN 2 * panel_rows
                                ELSE 2 * panel_cols)) => SliceAbsorbs
        /\ ret.fn = "calculate_yield_killers" => ~Raised(ret.val)

\* the grid aggregated over a store that holds a True-Defect record outside
\* the grid beside one inside
C22_OutsideBesideInside ==
    /\ ret.fn = "aggregate_stress_data"
    /\ \E rk \in SelectedTrueDefects(ret.args[1]) : ~InGrid(rk)
    /\ ret.val.total_defects = 1


----------------------------------------------------------------------------
(* Degenerate geometry: zero rows or columns *)

\* a layout whose quadrants are 9 wide and 11 high whatever the unit counts
QuadLayout(cols, rows) == LayoutParams(cols, rows, 9, 11, 2, 3, 3, 1)

\* layout.unit_width, layout.unit_height and layout.get_unit_origin(x, y)
UnitGeometry(cols, rows, x, y) ==
    /\ Idle
    /\ ret' = [fn |-> "get_unit_origin", args |-> <<cols, rows, x, y>>,
               val |-> [unit_width |-> unit_width(QuadLayout(cols, rows)),
                        unit_height |-> unit_height(QuadLayout(cols, rows)),
                        origin |-> get_unit_origin(QuadLayout(cols, rows), x, y)]]
    /\ UNCHANGED <<uploaded_files, panel, panel_rows, panel_cols, uuid_counter, cache,
                 report, session>>

\* aggregate_stress_data_from_df(df, rows, cols) for the rows and columns the
\* caller passes
AggregateFor(df, rows, cols) ==
    /\ Idle
    /\ ret' = [fn |-> "aggregate_stress_data_from_df", args |-> <<df, rows, cols>>,
               val |-> aggregate_stress_data_from_df(df, rows, cols)]
    /\ UNCHANGED <<uploaded_files, panel, panel_rows, panel_cols, uuid_counter, cache,
                 report, session>>

\* get_cross_section_matrix(panel, axis, index, rows, cols) for the rows and
\* columns the caller passes
CrossSectionFor(slice_axis, slice_index, rows, cols) ==
    /\ Idle
    /\ ret' = [fn |-> "get_cross_section_matrix",
               args |-> <<slice_axis, slice_index, rows, cols>>,
               val |-> get_cross_section_matrix(panel, slice_axis, slice_index,
                                                rows, cols, NoContext)]
    /\ UNCHANGED <<uploaded_files, panel, panel_rows, panel_cols, uuid_counter, cache,
                 report, session>>

\* unit counts with a degenerate one among them; the layout and a frame are
\* aggregated on their own, before a store is built
DegenerateDims == { d \in (0..MaxDim) \X (0..MaxDim) : d[1] = 0 \/ d[2] = 0 }

NextDegenerate ==
    \/ /\ Building
       /\ \E n \in LayerNums, sd \in Sides,
             rs \in {<<>>} \cup { <<r>> : r \in DirectRows } : AddLayer(n, sd, rs)
    \/ /\ ~PanelBool(panel)
       /\ \E cols \in -1..MaxDim, rows \in -1..MaxDim, x \in Idx, y \in Idx :
             UnitGeometry(cols, rows, x, y)
    \/ /\ ~PanelBool(panel)
       /\ \E df \in GridFrames, d \in DegenerateDims : AggregateFor(df, d[1], d[2])
    \/ \E ax \in {"Y", "X"}, i \in Idx, d \in DegenerateDims :
          CrossSectionFor(ax, i, d[1], d[2])
    \/ Return

SpecDegenerate == Init /\ [][NextDegenerate]_vars

\* the unit size is 0 along an axis without units
UnitSizeGuarded ==
    ret.fn = "get_unit_origin" =>
        /\ ret.args[1] <= 0 => ret.val.unit_width = 0
        /\ ret.args[2] <= 0 => ret.val.unit_height = 0

\* the grid of zero rows or columns is empty, with total and maximum 0
GridDegenerate ==
    ret.fn = "aggregate_stress_data_from_df" =>
        /\ ret.val.grid_counts = Zeros(2 * ret.args[2], 2 * ret.args[3])
        /\ MatrixSum(ret.val.grid_counts) = 0
        /\ ret.val.total_defects = 0
        /\ ret.val.max_count = 0

\* C23: when cols <= 0 (resp. rows <= 0) the unit width (resp. unit height)
\* is 0, and get_unit_origin, the grid aggregator and the cross-section
\* builder return zero-valued or empty results for zero rows or columns
\* instead of raising.
C23_DegenerateGeometry ==
    /\ UnitSizeGuarded
    /\ ret.fn = "get_unit_origin" /\ ret.args[1] = 0 /\ ret.args[2] = 0 =>
          ret.val.origin = [final_x |-> 0, final_y |-> 0]
    /\ GridDegenerate
    /\ ret.fn = "get_cross_section_matrix" =>
          /\ ~Raised(ret.val)
          /\ MatrixSum(ret.val.matrix) = 0

\* the unit size, the grid aggregator, and the slice whose axis has no unit:
\* its matrix has no column
C23_GuardsAndEmptyAxis ==
    /\ UnitSizeGuarded
    /\ GridDegenerate
    /\ ret.fn = "get_cross_section_matrix" =>
          /\ ~Raised(ret.val)
          /\ (IF ret.args[1] = "Y" THEN ret.args[4] ELSE ret.args[3]) = 0 =>
                /\ ret.val.axis_labels = <<>>
                /\ \A i \in DOMAIN ret.val.matrix : ret.val.matrix[i] = <<>>

\* a slice along the rows of a store with a True-Defect in row 0, taken for a
\* panel of zero rows
C23_SliceOfZeroRows ==
    /\ ret.fn = "get_cross_section_matrix"
    /\ ret.args[1] = "Y" /\ ret.args[3] = 0 /\ ret.args[4] > 0
    /\ \E rk \in TrueDefects(panel) : RecY(panel, rk) = ret.args[2]


----------------------------------------------------------------------------
(* Rejection of malformed files *)

\* the file is well-formed: its name matches BU-<2 digits><F|B>, it has a
\* 'Defects' sheet, and the sheet has the four required columns
WellFormed(f) ==
    /\ f.match
    /\ f.has_sheet
    /\ \A c \in {"DEFECT_ID", "DEFECT_TYPE", "UNIT_INDEX_X", "UNIT_INDEX_Y"} :
          c \in f.columns

\* the uploaded files that are well-formed and carry the given layer number
\* and side
WellFormedFor(n, sd) ==
    { k \in DOMAIN uploaded_files :
        /\ WellFormed(uploaded_files[k])
        /\ uploaded_files[k].layer_num = n
        /\ uploaded_files[k].side = sd }

\* the rows of these files, each named by its file and its position
RowsFor(n, sd) ==
    UNION { { <<k, j>> : j \in DOMAIN uploaded_files[k].rows } : k \in WellFormedFor(n, sd) }

----------------------------------------------------------------------------
(* generate_zip_package: the image tasks on the thread pool and the archive *)

\* ThreadPoolExecutor(max_workers=4)
max_workers == 4

\* variant of generate_and_save_image: the exception of a failed render
\* leaves the helper
generate_and_save_image_raises(image_path, outcome) ==
    [image_path |-> image_path,
     data |-> IF outcome = "ok" THEN <<image_path>> ELSE <<>>,
     exception |-> outcome # "ok", logged |-> FALSE, saves |-> FALSE]

\* variant of generate_and_save_image: the helper writes the image into the
\* archive from its own thread
generate_and_save_image_saves(image_path, outcome) ==
    [image_path |-> image_path, data |-> <<>>,
     exception |-> FALSE, logged |-> outcome # "ok", saves |-> outcome = "ok"]

\* _generate_and_save_image(zip_file, image_path, fig_generator, logger) for
\* a render that succeeds or fails: the bytes, or None after logger.error,
\* are returned to the caller and nothing is written in the thread
generate_and_save_image(image_path, outcome) ==
    [image_path |-> image_path,
     data |-> IF outcome = "ok" THEN <<image_path>> ELSE <<>>,
     exception |-> FALSE, logged |-> outcome # "ok", saves |-> FALSE]

\* the tasks a worker thread is running
Running == { t \in DOMAIN report.status : report.status[t] \in {"running", "saving"} }

\* generate_zip_package enters the block of the executor
Generate ==
    /\ report.pc = "idle"
    /\ report' = [report EXCEPT !.pc = "submitting"]
    /\ UNCHANGED <<uploaded_files, panel, panel_rows, panel_cols, uuid_counter,
                   cache, ret, session>>

\* executor.submit(_generate_and_save_image, ...); image_tasks.append(task)
Submit ==
    /\ report.pc = "submitting"
    /\ Len(report.status) < MaxTasks
    /\ report' = [report EXCEPT !.status = Append(@, "queued"),
                                !.outcome = Append(@, "pending"),
                                !.future = Append(@, <<>>)]
    /\ UNCHANGED <<uploaded_files, panel, panel_rows, panel_cols, uuid_counter,
                   cache, ret, session>>

\* the end of the with block: shutdown(wait=True) is entered
ExitPool ==
    /\ report.pc = "submitting"
    /\ report' = [report EXCEPT !.pc = "shutdown"]
    /\ UNCHANGED <<uploaded_files, panel, panel_rows, panel_cols, uuid_counter,
                   cache, ret, session>>

\* a free worker thread takes a queued task
StartTask(t) ==
    /\ report.status[t] = "queued"
    /\ Cardinality(Running) < max_workers
    /\ report' = [report EXCEPT !.status[t] = "running"]
    /\ UNCHANGED <<uploaded_files, panel, panel_rows, panel_cols, uuid_counter,
                   cache, ret, session>>

\* the helper ends in its thread: the render succeeded or failed
FinishTask(t, outcome) ==
    /\ report.status[t] = "running"
    /\ LET result == generate_and_save_image(t, outcome)
       IN report' =
            [report EXCEPT
               !.outcome[t] = outcome,
               !.future[t] = <<result>>,
               !.status[t] = IF result.saves THEN "saving" ELSE "done",
               !.writing = IF result.saves THEN @ \cup {[thread |-> t, task |-> t]}
                           ELSE @,
               !.log = IF result.logged
                       THEN @ \cup {[level |-> "ERROR", image_path |-> t]}
                       ELSE @]
    /\ UNCHANGED <<uploaded_files, panel, panel_rows, panel_cols, uuid_counter,
                   cache, ret, session>>

\* shutdown(wait=True) returns when every task has ended
Joined ==
    /\ report.pc = "shutdown"
    /\ \A t \in DOMAIN report.status : report.status[t] = "done"
    /\ report' = [report EXCEPT !.pc = "collecting"]
    /\ UNCHANGED <<uploaded_files, panel, panel_rows, panel_cols, uuid_counter,
                   cache, ret, session>>

\* path, data = task.result() of the next task: the exception of the task is
\* raised again, data is written, or the failure is logged
Collect ==
    /\ report.pc = "collecting"
    /\ report.collected < Len(report.status)
    /\ LET t == report.collected + 1
           result == report.future[t][1]
       IN /\ report.status[t] = "done"
          /\ report' =
               IF result.exception THEN [report EXCEPT !.pc = "raised"]
               ELSE IF result.data # <<>>
               THEN [report EXCEPT
                       !.pc = "writing",
                       !.writing = @ \cup {[thread |-> "main", task |-> t]}]
               ELSE [report EXCEPT
                       !.collected = t,
                       !.log = @ \cup {[level |-> "INFO", image_path |-> t]}]
    /\ UNCHANGED <<uploaded_files, panel, panel_rows, panel_cols, uuid_counter,
                   cache, ret, session>>

\* zip_file.writestr(path, data) of a thread returns: the entry is in the
\* archive
Written(w) ==
    /\ w \in report.writing
    /\ report' =
         IF w.thread = "main"
         THEN [report EXCEPT
                 !.pc = "collecting",
                 !.collected = w.task,
                 !.writing = @ \ {w},
                 !.archive = Append(@, [path |-> <<"image", w.task>>, content |-> <<w.task>>])]
         ELSE [report EXCEPT
                 !.status[w.task] = "done",
                 !.writing = @ \ {w},
                 !.archive = Append(@, [path |-> <<"image", w.task>>, content |-> <<w.task>>])]
    /\ UNCHANGED <<uploaded_files, panel, panel_rows, panel_cols, uuid_counter,
                   cache, ret, session>>

\* zip_file.writestr("Debug_Log.txt", log_capture_string.getvalue()) and the
\* return of the bytes
WriteDebugLog ==
    /\ report.pc = "collecting"
    /\ report.collected = Len(report.status)
    /\ report' = [report EXCEPT
                    !.pc = "returned",
                    !.archive = Append(@, [path |-> <<"Debug_Log.txt", 0>>,
                                           content |-> report.log])]
    /\ UNCHANGED <<uploaded_files, panel, panel_rows, panel_cols, uuid_counter,
                   cache, ret, session>>

NextZip ==
    \/ Generate
    \/ Submit
    \/ ExitPool
    \/ \E t \in DOMAIN report.status : StartTask(t)
    \/ \E t \in DOMAIN report.status, outcome \in {"ok", "failed"} :
          FinishTask(t, outcome)
    \/ Joined
    \/ Collect
    \/ \E w \in report.writing : Written(w)
    \/ WriteDebugLog

SpecZip == Init /\ [][NextZip]_vars


\* the threads and the caller keep running until the call has ended
FairZip == SpecZip /\ WF_vars(NextZip)

\* the image entries of the archive
ImagePaths ==
    { report.archive[i].path[2] :
        i \in { j \in DOMAIN report.archive : report.archive[j].path[1] = "image" } }

\* the tasks whose render succeeded, and those whose render failed
Rendered == { t \in DOMAIN report.outcome : report.outcome[t] = "ok" }
Failed == { t \in DOMAIN report.outcome : report.outcome[t] = "failed" }

\* the archive returned holds every rendered image with its bytes, no failed
\* one, and last the debug log with an error line for each failure
ArchiveAsRendered ==
    /\ ImagePaths = Rendered
    /\ \A t \in Rendered :
          \E i \in DOMAIN report.archive :
             /\ report.archive[i].path = <<"image", t>>
             /\ report.archive[i].content = <<t>>
    /\ report.archive # <<>>
    /\ LET last == report.archive[Len(report.archive)]
       IN /\ last.path = <<"Debug_Log.txt", 0>>
          /\ \A t \in Failed : [level |-> "ERROR", image_path |-> t] \in last.content

C26_WritesSerialized ==
    /\ Cardinality(report.writing) <= 1
    /\ \A w \in report.writing :
          /\ report.status[w.task] = "done"
          /\ report.outcome[w.task] = "ok"
    /\ \A t \in ImagePaths : report.status[t] = "done"

\* an image being written while the package holds more tasks than the pool
\* has threads, an earlier image already in the archive
C26_Witness ==
    /\ Len(report.status) > max_workers
    /\ report.writing # {}
    /\ ImagePaths # {}
    /\ Cardinality(Rendered) >= 3


----------------------------------------------------------------------------
(* create_delta_heatmap (src/plotting.py): the difference of two stress maps *)

\* f"{int(x):+d}" of a difference
SignedText(x) == (IF x < 0 THEN <<"-">> ELSE <<"+">>) \o IntToStr(Abs(x))

\* create_delta_heatmap(data_a, data_b, ...): the z values and the cell
\* texts handed to the heatmap. diff_grid is grid_counts of A minus that of
\* B as floats, and diff_grid[diff_grid == 0] = np.nan replaces its zeros
create_delta_heatmap(data_a, data_b) ==
    LET a == data_a.grid_counts
        b == data_b.grid_counts
    IN [diff_grid |->
          [i \in DOMAIN a |-> [j \in DOMAIN a[i] |->
             IF a[i][j] - b[i][j] = 0 THEN NaNCell
             ELSE NumCell(a[i][j] - b[i][j])]],
        text_data |->
          [i \in DOMAIN a |-> [j \in DOMAIN a[i] |->
             IF a[i][j] - b[i][j] # 0 THEN SignedText(a[i][j] - b[i][j])
             ELSE <<>>]]]

\* the stress maps of two groups over the same grid of units
DeltaMaps ==
    UNION { { StressMapData(g, NoDefects(n_rows, n_cols), MatrixSum(g),
                            IF MatrixSum(g) > 0 THEN MatrixMax(g) ELSE 0) :
                g \in [1..n_rows -> [1..n_cols -> 0..MaxCount]] } :
            n_rows \in 1..2, n_cols \in 1..2 }

\* the stress maps with the shape of a given one
SameShape(data_a) ==
    { data_b \in DeltaMaps :
        /\ Len(data_b.grid_counts) = Len(data_a.grid_counts)
        /\ Len(data_b.grid_counts[1]) = Len(data_a.grid_counts[1]) }

\* StressMapTool.render_main in Delta mode: create_delta_heatmap of the maps
\* of group A and group B
DeltaHeatmap(data_a, data_b) ==
    /\ Idle
    /\ ret' = [fn |-> "create_delta_heatmap", args |-> <<data_a, data_b>>,
               val |-> create_delta_heatmap(data_a, data_b)]
    /\ UNCHANGED <<uploaded_files, panel, panel_rows, panel_cols, uuid_counter, cache,
                 report, session>>

NextDelta ==
    \/ \E data_a \in DeltaMaps : \E data_b \in SameShape(data_a) :
          DeltaHeatmap(data_a, data_b)
    \/ Return

SpecDelta == Init /\ [][NextDelta]_vars

\* the cells of the grids of a call
DeltaCells == { <<i, j>> \in (1..2) \X (1..2) :
                  /\ i <= Len(ret.args[1].grid_counts)
                  /\ j <= Len(ret.args[1].grid_counts[1]) }

\* C27: in every cell the difference grid holds the number A[i][j] - B[i][j],
\* a zero included, and delta(A, B) is minus delta(B, A) cell by cell
C27_DeltaElementwise ==
    ret.fn = "create_delta_heatmap" =>
       LET a == ret.args[1]
           b == ret.args[2]
           back == create_delta_heatmap(b, a).diff_grid
       IN \A c \in DeltaCells :
             /\ ret.val.diff_grid[c[1]][c[2]]
                  = NumCell(a.grid_counts[c[1]][c[2]] - b.grid_counts[c[1]][c[2]])
             /\ back[c[1]][c[2]].kind = "num"
             /\ ret.val.diff_grid[c[1]][c[2]].v = -back[c[1]][c[2]].v

\* the part of C27 that holds: a cell where A and B differ holds A - B and is
\* minus the cell of delta(B, A); a cell where they agree holds NaN and an
\* empty text in both
C27_NonZeroCells ==
    ret.fn = "create_delta_heatmap" =>
       LET a == ret.args[1]
           b == ret.args[2]
           back == create_delta_heatmap(b, a).diff_grid
       IN \A c \in DeltaCells :
             LET d == a.grid_counts[c[1]][c[2]] - b.grid_counts[c[1]][c[2]]
             IN IF d # 0
                THEN /\ ret.val.diff_grid[c[1]][c[2]] = NumCell(d)
                     /\ back[c[1]][c[2]] = NumCell(-d)
                ELSE /\ ret.val.diff_grid[c[1]][c[2]] = NaNCell
                     /\ back[c[1]][c[2]] = NaNCell
                     /\ ret.val.text_data[c[1]][c[2]] = <<>>

\* a delta map of two grids that agree in one unit and differ in another
C27_AgreeingUnit ==
    /\ ret.fn = "create_delta_heatmap"
    /\ \E c \in DeltaCells :
          ret.args[1].grid_counts[c[1]][c[2]] = ret.args[2].grid_counts[c[1]][c[2]]
    /\ \E c \in DeltaCells :
          ret.args[1].grid_counts[c[1]][c[2]] < ret.args[2].grid_counts[c[1]][c[2]]


----------------------------------------------------------------------------
(* The mirror of the Back side *)

\* the records of the store whose raw index lies on the panel, each named by
\* its layer and its position
OnPanel ==
    { ik \in (1..(2 * MaxLayer)) \X (1..(MaxFiles * MaxLen)) :
        /\ ik[1] \in DOMAIN panel.layers
        /\ ik[2] \in DOMAIN panel.layers[ik[1]].raw_df.rows
        /\ panel.layers[ik[1]].layout.panel_cols >= 1
        /\ panel.layers[ik[1]].raw_df.rows[ik[2]].UNIT_INDEX_X >= 0
        /\ panel.layers[ik[1]].raw_df.rows[ik[2]].UNIT_INDEX_X
              < 2 * panel.layers[ik[1]].layout.panel_cols }

\* C28: for cols >= 1 and a raw index x in [0, 2*cols) the mirror of a
\* Back-side record is (2*cols - 1) - x, lies in [0, 2*cols) again and is
\* taken back to x by the mirror; a Front-side record keeps physical_x = x
C28_MirrorInvolution ==
    \A ik \in OnPanel :
       LET layer == panel.layers[ik[1]]
           r == layer.raw_df.rows[ik[2]]
           x == r.UNIT_INDEX_X
           cols == layer.layout.panel_cols
       IN IF layer.side = "B"
          THEN /\ r.PHYSICAL_X_FLIPPED = (2 * cols - 1) - x
               /\ layer.raw_df.hasPX => r.PHYSICAL_X = <<(2 * cols - 1) - x>>
               /\ r.PHYSICAL_X_FLIPPED >= 0 /\ r.PHYSICAL_X_FLIPPED < 2 * cols
               /\ PhysicalXFlipped(r.PHYSICAL_X_FLIPPED, "B", layer.layout) = x
          ELSE /\ r.PHYSICAL_X_FLIPPED = x
               /\ layer.raw_df.hasPX => r.PHYSICAL_X = <<x>>

\* a panel loaded from files with a Back-side record at the first column of
\* a grid four units wide, mirrored to the last, and a Front-side record
C28_Witness ==
    /\ uploaded_files # <<>>
    /\ \E ik \in OnPanel :
          /\ panel.layers[ik[1]].side = "B"
          /\ panel.layers[ik[1]].layout.panel_cols = 2
          /\ panel.layers[ik[1]].raw_df.rows[ik[2]].UNIT_INDEX_X = 0
          /\ panel.layers[ik[1]].raw_df.rows[ik[2]].PHYSICAL_X = <<3>>
    /\ \E ik \in OnPanel : panel.layers[ik[1]].side = "F"


----------------------------------------------------------------------------
(* The session (src/state.py) and ViewManager (src/views/manager.py).       *)
(* Lengths are kept in tenths of a millimetre.  An uploaded file is kept as *)
(* the layer number in its name, 0 for a name load_data rejects; a loaded   *)
(* panel as its id, the layer numbers of its keys in dict order and the     *)
(* geometry load_data was given.                                            *)

\* a length of config.py in tenths of a millimetre
Mm(whole, tenths) == 10 * whole + tenths

FRAME_WIDTH == Mm(510, 0)
FRAME_HEIGHT == Mm(515, 0)
DEFAULT_OFFSET_X == Mm(13, 5)
DEFAULT_OFFSET_Y == Mm(15, 0)
DEFAULT_GAP_X == Mm(3, 0)
DEFAULT_GAP_Y == Mm(3, 0)
DYNAMIC_GAP_X == Mm(5, 0)
DYNAMIC_GAP_Y == Mm(3, 5)
PANEL_WIDTH == Mm(470, 0)
PANEL_HEIGHT == Mm(470, 0)
GAP_SIZE == DEFAULT_GAP_X

\* dict.get(key, default) of an entry that may be absent
Get(entry, default) == IF entry = <<>> THEN default ELSE entry[1]

RECURSIVE sorted(_)
\* sorted(list) of a list of integers: every element is kept
sorted(list) ==
    IF list = <<>> THEN <<>>
    ELSE LET k == CHOOSE i \in DOMAIN list : \A j \in DOMAIN list : list[i] <= list[j]
         IN <<list[k]>> \o sorted(SubSeq(list, 1, k - 1) \o SubSeq(list, k + 1, Len(list)))

\* list.remove(v) followed by the list: the first v is taken out
list_remove(list, v) ==
    LET k == CHOOSE i \in DOMAIN list :
                list[i] = v /\ \A j \in DOMAIN list : list[j] = v => i <= j
    IN SubSeq(list, 1, k - 1) \o SubSeq(list, k + 1, Len(list))

RECURSIVE DictKeys(_, _)
\* the keys of temp_data in the order of their first file
DictKeys(files, seen) ==
    IF files = <<>> THEN <<>>
    ELSE IF Head(files) = 0 \/ Head(files) \in seen THEN DictKeys(Tail(files), seen)
    ELSE <<Head(files)>> \o DictKeys(Tail(files), seen \cup {Head(files)})

\* load_data(uploaded_files, panel_rows, panel_cols, panel_width,
\* panel_height, gap_x, gap_y), the function body: the panel of the files, or
\* of the five sample layers when no file is given
load_data_body(files, rows, cols, width, height, gap_x, gap_y, id) ==
    [id |-> id,
     layers |-> IF files # <<>> THEN DictKeys(files, {}) ELSE <<1, 2, 3, 4, 5>>,
     panel_rows |-> rows, panel_cols |-> cols,
     panel_width |-> width, panel_height |-> height,
     gap_x |-> gap_x, gap_y |-> gap_y]

\* st.cache_data on load_data: the entry of the arguments as they are passed
CacheHit(loads, key) == \E e \in loads : e.key = key
CacheValue(loads, key) == (CHOOSE e \in loads : e.key = key).value

\* run_analysis: p_width, p_height, effective_gap_x, effective_gap_y
RunGeometry(params) ==
    LET dyn_gap_x == Get(params.dyn_gap_x, DYNAMIC_GAP_X)
        dyn_gap_y == Get(params.dyn_gap_y, DYNAMIC_GAP_Y)
    IN [panel_width |-> FRAME_WIDTH - 2 * DEFAULT_OFFSET_X - DEFAULT_GAP_X - 4 * dyn_gap_x,
        panel_height |-> FRAME_HEIGHT - 2 * DEFAULT_OFFSET_Y - DEFAULT_GAP_Y - 4 * dyn_gap_y,
        gap_x |-> DEFAULT_GAP_X + 2 * dyn_gap_x,
        gap_y |-> DEFAULT_GAP_Y + 2 * dyn_gap_y]

\* ViewManager.run_analysis(files) with the row and column counts of the
\* widgets; the uploader of the session holds the files it is given
RunAnalysis(files) ==
    /\ session.runs < MaxRuns
    /\ LET g == RunGeometry(session.analysis_params)
           key == <<files, panel_rows, panel_cols,
                    g.panel_width, g.panel_height, g.gap_x, g.gap_y>>
           hit == CacheHit(session.loads, key)
           data == IF hit THEN CacheValue(session.loads, key)
                   ELSE load_data_body(files, panel_rows, panel_cols, g.panel_width,
                                       g.panel_height, g.gap_x, g.gap_y,
                                       uuid_counter + 1)
       IN /\ uuid_counter' = IF hit THEN uuid_counter ELSE uuid_counter + 1
          /\ session' =
               [session EXCEPT
                  !.runs = @ + 1,
                  !.uploaded = files,
                  !.loads = @ \cup {[key |-> key, value |-> data]},
                  !.data = <<data>>,
                  !.layer_data = <<>>,
                  !.dataset_id = IF data.layers = <<>> THEN @
                                 ELSE IF files = <<>> THEN "sample_data"
                                 ELSE "hash",
                  !.multi_layer_selection =
                      IF data.layers = <<>> THEN @ ELSE sorted(data.layers),
                  !.analysis_params =
                      [@ EXCEPT !.panel_rows = <<panel_rows>>,
                                !.panel_cols = <<panel_cols>>,
                                !.panel_width = <<g.panel_width>>,
                                !.panel_height = <<g.panel_height>>,
                                !.gap_x = <<g.gap_x>>,
                                !.gap_y = <<g.gap_y>>]]
    /\ UNCHANGED <<uploaded_files, panel, panel_rows, panel_cols, cache, ret, report>>

\* _sync_params_from_session_state: the dynamic gaps of the widgets
SyncParams(dyn_gap_x, dyn_gap_y) ==
    /\ session.analysis_params.dyn_gap_x # <<dyn_gap_x>>
         \/ session.analysis_params.dyn_gap_y # <<dyn_gap_y>>
    /\ session' = [session EXCEPT !.analysis_params.dyn_gap_x = <<dyn_gap_x>>,
                                  !.analysis_params.dyn_gap_y = <<dyn_gap_y>>]
    /\ UNCHANGED <<uploaded_files, panel, panel_rows, panel_cols, uuid_counter,
                   cache, ret, report>>

\* SessionStore.layer_data: whether the property returns None
LayerDataNone(s) ==
    \/ s.dataset_id = "None"
    \/ s.uploaded = <<>> /\ s.dataset_id # "sample_data"

\* SessionStore.layer_data: the arguments of its load_data call
LayerDataKey(s) ==
    <<s.uploaded, Get(s.analysis_params.panel_rows, 7),
      Get(s.analysis_params.panel_cols, 7)>>

\* SessionStore.layer_data: load_data(files, rows, cols) through the cache
LayerData(s, id) ==
    LET key == LayerDataKey(s)
    IN IF CacheHit(s.loads, key) THEN CacheValue(s.loads, key)
       ELSE load_data_body(key[1], key[2], key[3],
                           PANEL_WIDTH, PANEL_HEIGHT, GAP_SIZE, GAP_SIZE, id)

\* the session after a read of layer_data
AfterRead(s, id) ==
    IF LayerDataNone(s) THEN [s EXCEPT !.layer_data = <<>>]
    ELSE [s EXCEPT !.layer_data = <<LayerData(s, id)>>,
                   !.loads = @ \cup {[key |-> LayerDataKey(s),
                                      value |-> LayerData(s, id)]}]

\* the counter of panel ids after a read of layer_data
IdAfterRead(s, id) ==
    IF LayerDataNone(s) \/ CacheHit(s.loads, LayerDataKey(s)) THEN id ELSE id + 1

\* a rerun of the script reads store.layer_data
ReadLayerData ==
    /\ session.runs > 0
    /\ session' = AfterRead(session, uuid_counter + 1)
    /\ uuid_counter' = IdAfterRead(session, uuid_counter)
    /\ UNCHANGED <<uploaded_files, panel, panel_rows, panel_cols, cache, ret, report>>

\* variant of on_click_layer: the clicked layer is removed whatever is left
on_click_layer_empties(selection, all_layers, n) ==
    LET new_sel == IF selection # <<>> THEN selection ELSE all_layers
    IN sorted(IF n \in Range(new_sel) THEN list_remove(new_sel, n)
              ELSE Append(new_sel, n))

\* the callback of on_click_layer(n): the new multi_layer_selection
on_click_layer(selection, all_layers, n) ==
    LET new_sel == IF selection # <<>> THEN selection ELSE all_layers
    IN sorted(IF n \in Range(new_sel)
              THEN (IF Len(new_sel) > 1 THEN list_remove(new_sel, n) ELSE new_sel)
              ELSE Append(new_sel, n))

\* the callback of toggle_side(side): the new analysis_side_pills
toggle_side(pills, side) ==
    LET new_sides == Get(pills, <<"Front", "Back">>)
    IN IF side \in Range(new_sides)
       THEN (IF Len(new_sides) > 1 THEN list_remove(new_sides, side) ELSE new_sides)
       ELSE Append(new_sides, side)

\* _render_analysis_page_controls draws a button for each layer of
\* store.layer_data and the button of layer n is clicked
ClickLayer(n) ==
    /\ session.runs > 0
    /\ ~LayerDataNone(session)
    /\ LET read == AfterRead(session, uuid_counter + 1)
           all_layers == sorted(read.layer_data[1].layers)
       IN /\ n \in Range(all_layers)
          /\ session' = [read EXCEPT !.multi_layer_selection =
                            on_click_layer(session.multi_layer_selection, all_layers, n)]
    /\ uuid_counter' = IdAfterRead(session, uuid_counter)
    /\ UNCHANGED <<uploaded_files, panel, panel_rows, panel_cols, cache, ret, report>>

\* the Front or the Back button of the analysis page is clicked
ClickSide(side) ==
    /\ session.runs > 0
    /\ ~LayerDataNone(session)
    /\ session' = [AfterRead(session, uuid_counter + 1) EXCEPT
                     !.analysis_side_pills =
                        <<toggle_side(session.analysis_side_pills, side)>>]
    /\ uuid_counter' = IdAfterRead(session, uuid_counter)
    /\ UNCHANGED <<uploaded_files, panel, panel_rows, panel_cols, cache, ret, report>>

\* the uploads of a session: none (the sample), a rejected name, one layer,
\* two layers in descending order with a second file of the first
SessionFiles == { <<>>, <<0>>, <<1>>, <<2, 1, 2>> }

\* the values of the dynamic gap widgets
DynGaps == { <<DYNAMIC_GAP_X, DYNAMIC_GAP_Y>>, <<Mm(2, 5), DYNAMIC_GAP_Y>> }

NextSession ==
    \/ \E files \in SessionFiles : RunAnalysis(files)
    \/ \E d \in DynGaps : SyncParams(d[1], d[2])
    \/ ReadLayerData
    \/ \E n \in 1..5 : ClickLayer(n)
    \/ \E side \in {"Front", "Back"} : ClickSide(side)

SpecSession == Init /\ [][NextSession]_vars


\* run_analysis has loaded a panel and layer_data was read afterwards
ReadAfterRun ==
    /\ session.data # <<>>
    /\ session.data[1].layers # <<>>
    /\ session.layer_data # <<>>

\* the geometry a panel was built with
GeometryOf(p) == <<p.panel_width, p.panel_height, p.gap_x, p.gap_y>>

\* C29: after run_analysis has loaded a panel, every later read of layer_data
\* (files and row/column counts unchanged) returns that same panel, built
\* with the geometry run_analysis passed to load_data and stored in
\* analysis_params
C29_SamePanelOnReread ==
    ReadAfterRun =>
       /\ session.layer_data[1] = session.data[1]
       /\ GeometryOf(session.layer_data[1])
            = <<session.analysis_params.panel_width[1],
                session.analysis_params.panel_height[1],
                session.analysis_params.gap_x[1],
                session.analysis_params.gap_y[1]>>

\* the part of C29 that holds: the panel read has the layers and the row and
\* column counts of the panel run_analysis loaded, analysis_params holds the
\* geometry of that panel, and the panel read is built with the defaults of
\* load_data
C29_SameFilesAndCounts ==
    ReadAfterRun =>
       /\ session.layer_data[1].layers = session.data[1].layers
       /\ session.layer_data[1].panel_rows = session.data[1].panel_rows
       /\ session.layer_data[1].panel_cols = session.data[1].panel_cols
       /\ GeometryOf(session.data[1])
            = <<session.analysis_params.panel_width[1],
                session.analysis_params.panel_height[1],
                session.analysis_params.gap_x[1],
                session.analysis_params.gap_y[1]>>
       /\ GeometryOf(session.layer_data[1])
            = <<PANEL_WIDTH, PANEL_HEIGHT, GAP_SIZE, GAP_SIZE>>

\* layer_data read after the first run_analysis of a session, on one file
C29_FirstReread ==
    /\ ReadAfterRun
    /\ session.runs = 1
    /\ session.uploaded = <<1>>
    /\ session.analysis_params.dyn_gap_x = <<>>

\* the layers and the sides selected on the analysis page
SelectedSides == Get(session.analysis_side_pills, <<"Front", "Back">>)

\* C30: from the state run_analysis sets, after any clicks of the layer and
\* side buttons multi_layer_selection is non-empty, ascending and free of
\* duplicates, analysis_side_pills holds Front or Back, and a click on the
\* only selected layer or side leaves the selection as it was
C30_SelectionNeverEmptied ==
    [][ /\ session'.dataset_id # "None" =>
             /\ session'.multi_layer_selection # <<>>
             /\ \A i \in DOMAIN session'.multi_layer_selection :
                   \A j \in DOMAIN session'.multi_layer_selection :
                      i < j => session'.multi_layer_selection[i]
                                  < session'.multi_layer_selection[j]
             /\ Range(SelectedSides') \cap {"Front", "Back"} # {}
        /\ \A n \in 1..5 :
              ClickLayer(n) /\ session.multi_layer_selection = <<n>>
                 => session'.multi_layer_selection = <<n>>
        /\ \A side \in {"Front", "Back"} :
              ClickSide(side) /\ SelectedSides = <<side>>
                 => SelectedSides' = <<side>> ]_vars

\* the selection narrowed to one layer and one side by clicks
C30_Witness ==
    /\ session.dataset_id = "hash"
    /\ Len(session.data[1].layers) = 2
    /\ session.multi_layer_selection = <<2>>
    /\ session.analysis_side_pills = << <<"Back">> >>

============================================================================
